---- MODULE Spec2Model ----
(***************************************************************************)
(* State-machine model of Guncad_index_downloader_v15.py:                  *)
(*   LBRYDaemonClient.get_file / wait_for_download  (acquisition)          *)
(*   DownloadTracker                                (ledger and dedup)     *)
(*   IntentBasedOrganizer.reconcile_moved_files / add_to_index             *)
(*   GunCADDownloaderV6.process_entry / run         (orchestration)        *)
(***************************************************************************)
EXTENDS Integers, Sequences, FiniteSets, TLC

(***************************************************************************)
(* Bounds of the model.                                                    *)
(***************************************************************************)
\* largest written_bytes value the daemon reports in a poll
MaxBytes == 1
\* polls are explored while the loop's elapsed time is at most MaxTime
MaxTime == 64
\* ledger writes explored by the ledger machine
MaxWrites == 3
\* runs of the program explored one after the other
MaxRuns == 2
\* the expected size of the searches, and the sizes of a file within and
\* outside 1% of it
ExpectedSize == 1000
SizeNear == 1005
SizeFar == 2000

(***************************************************************************)
(* Program constants.                                                      *)
(***************************************************************************)
\* get_file(lbry_url, max_retries=3)
max_retries == 3
\* time.sleep(5) before every attempt but the first
RetrySleep == 5
\* stall_threshold = 30
stall_threshold == 30
\* time.sleep(2) at the end of every poll iteration
PollSleep == 2
\* "if elapsed > 60" in both no-status branches
NoStatusLimit == 60
\* requests.post(..., timeout=30): the longest a daemon call can take
CallTimeout == 30
\* BATCH_UPDATE_INTERVAL = 10
batch_update_interval == 10

(***************************************************************************)
(* Values.                                                                 *)
(***************************************************************************)
\* a path with no file behind it
NoFile == -1
\* stall_start_time = None
NoTime == -1

(***************************************************************************)
(* Paths.  A path is a directory and a bare filename; a filename is a      *)
(* sequence of characters.  output_dir is the managed tree.                *)
(***************************************************************************)
\* the daemon's own download directory, outside output_dir
DirDl == "dl"
\* a directory of output_dir that is no category folder
DirInbox == "inbox"
\* the folders get_folder_path can return
DirCat1 == "cat1"
DirCat2 == "cat2"
Dirs == {DirDl, DirInbox, DirCat1, DirCat2}

\* "a-b.z", "A_b" and "c.z"
NameABz == <<"a", "-", "b", ".", "z">>
NameAb == <<"A", "_", "b">>
NameCz == <<"c", ".", "z">>
Names == {NameABz, NameAb, NameCz}

Path(d, n) == [dir |-> d, name |-> n]
NoPath == [dir |-> "", name |-> <<>>]
\* "r.m", for README.md, which the program writes into the tree and leaves
\* out of its scans; kept in one folder of the tree
NameReadme == <<"r", ".", "m">>
ReadmePath == Path(DirCat1, NameReadme)
AllPaths == {Path(d, n) : d \in Dirs, n \in Names} \cup {ReadmePath}

\* os.path.basename, os.path.join(root, filename)
basename(p) == p.name
join(d, n) == Path(d, n)

\* os.path.relpath(os.path.abspath(p), os.path.abspath(output_dir)), as the
\* sequence of its components
relpath(p) ==
    IF p.dir = DirDl THEN <<"..", p.dir, p.name>> ELSE <<p.dir, p.name>>

\* not rel_path.startswith('..')
InsideTree(p) == relpath(p)[1] # ".."

\* os.path.exists, os.path.getsize
exists(f, p) == p \in DOMAIN f /\ f[p] # NoFile
getsize(f, p) == f[p]

\* a test that takes a file of one byte for empty
MaterializedOverOneByte(f, p) == p # NoPath /\ exists(f, p) /\ getsize(f, p) > 1

\* "download_path and os.path.exists(download_path)" followed by
\* "os.path.getsize(download_path) > 0"
Materialized(f, p) == p # NoPath /\ exists(f, p) /\ getsize(f, p) > 0

(***************************************************************************)
(* Strings of the dedup logic, computed character by character.            *)
(***************************************************************************)
Map(s, F(_)) == [i \in 1..Len(s) |-> F(s[i])]

\* str.lower() on the characters in use
LowerChar(c) == IF c = "A" THEN "a" ELSE c
lower(s) == Map(s, LowerChar)

\* .replace('-', ' ').replace('_', ' ')
DashToSpace(c) == IF c \in {"-", "_"} THEN " " ELSE c
replace_dashes(s) == Map(s, DashToSpace)

\* positions of character c in s
Positions(s, c) == {i \in 1..Len(s) : s[i] = c}
MinOf(S) == CHOOSE x \in S : \A y \in S : x <= y
MaxOf(S) == CHOOSE x \in S : \A y \in S : x >= y

\* filename.split(':')[0] if ':' in filename else filename
before_colon(s) ==
    IF Positions(s, ":") = {} THEN s ELSE SubSeq(s, 1, MinOf(Positions(s, ":")) - 1)

\* os.path.splitext(name)[0]: cut at the last dot, unless only dots precede it
splitext_root(s) ==
    IF Positions(s, ".") = {} THEN s
    ELSE LET k == MaxOf(Positions(s, "."))
         IN  IF \E i \in 1..(k - 1) : s[i] # "." THEN SubSeq(s, 1, k - 1) ELSE s

\* str.lstrip('/')
lstrip_slash(s) ==
    IF \A i \in 1..Len(s) : s[i] = "/" THEN <<>>
    ELSE SubSeq(s, MinOf({i \in 1..Len(s) : s[i] # "/"}), Len(s))

\* an LBRY URL as urlparse splits it (the fragment after '#' is dropped)
Url(netloc, path) == [netloc |-> netloc, path |-> path]
\* lbry_url = ''
NoUrl == Url(<<>>, <<>>)
\* "lbry://A_b#1" and "lbry://@c/b#2"
LbryA == Url(NameAb, <<>>)
LbryB == Url(<<"@", "c">>, <<"/", "b">>)
Lbrys == {LbryA, LbryB}

\* process_entry: parsed.path.lstrip('/').split('#')[0], or
\* parsed.netloc.split('#')[0] when that is empty
expected_filename(u) ==
    IF lstrip_slash(u.path) # <<>> THEN lstrip_slash(u.path) ELSE u.netloc

\* the search side and the cached side of the normalized comparison
normalized_search(n) == replace_dashes(lower(before_colon(n)))
normalized_cached(n) == replace_dashes(lower(splitext_root(n)))

(***************************************************************************)
(* DownloadTracker: the ledger (history) and the filesystem cache.         *)
(***************************************************************************)
DetailUrls == {"d1", "d2"}

\* hashlib.md5(detail_url.encode()).hexdigest(): one key per URL
get_entry_id(detail_url) == <<"md5", detail_url>>

\* dict.get(key, default)
Get(e, k, default) == IF k \in DOMAIN e THEN e[k] ELSE default

\* a ledger write that updates the fields of the entry in place
PutMerged(h, k, e) ==
    [x \in DOMAIN h \cup {k} |->
        IF x # k THEN h[x]
        ELSE IF k \in DOMAIN h
        THEN [f \in DOMAIN h[k] \cup DOMAIN e |-> IF f \in DOMAIN e THEN e[f] ELSE h[k][f]]
        ELSE e]

\* self.history[entry_id] = entry
Put(h, k, e) == [x \in DOMAIN h \cup {k} |-> IF x = k THEN e ELSE h[x]]

\* history = {}
NoHistory == <<>>
\* download_history.json does not exist
NoDb == [present |-> FALSE, readable |-> FALSE, entries |-> <<>>]
\* GunCAD_Master_Index.xlsx does not exist
NoIndexFile == [present |-> FALSE, rows |-> <<>>]

\* a save that leaves no file
save_history_nothing(h) == [present |-> FALSE, readable |-> FALSE, entries |-> <<>>]

\* save_history: json.dump(self.history) into db_file
save_history(h) == [present |-> TRUE, readable |-> TRUE, entries |-> h]
\* download_history.json holds text that json.load rejects; entries are the
\* records whose text is still in the file
Torn(h) == [present |-> TRUE, readable |-> FALSE, entries |-> h]
\* a load that takes whatever records the file's text still shows
load_history_salvage(db) == IF db.present THEN db.entries ELSE NoHistory
\* load_history: the file's entries, {} when there is no file and {} when
\* json.load raises (bare except)
load_history(db) == IF db.present /\ db.readable THEN db.entries ELSE NoHistory

\* filesystem_cache is None
NoCache == [built |-> FALSE, entries |-> <<>>]

\* the files os.walk(output_dir) lists, in the order it lists them
Reserved == {<<"h", ".", "j">>, NameReadme}
TreeDirs == {d \in Dirs : InsideTree(Path(d, NameCz))}

\* a scan that records every file it meets
build_filesystem_cache_all(f, order) ==
    [built |-> TRUE,
     entries |-> LET keep(p) == exists(f, p)
                     found == SelectSeq(order, keep)
                 IN  [i \in 1..Len(found) |->
                         [path |-> found[i], size |-> getsize(f, found[i])]]]

\* build_filesystem_cache: order is the sequence in which os.walk meets the
\* paths of the tree; the cache keeps (path, size) in that order
build_filesystem_cache(f, order) ==
    [built |-> TRUE,
     entries |-> LET keep(p) == exists(f, p) /\ basename(p) \notin Reserved
                     found == SelectSeq(order, keep)
                 IN  [i \in 1..Len(found) |->
                         [path |-> found[i], size |-> getsize(f, found[i])]]]

\* "size_diff < (expected_size * 0.01)"
within_tolerance(size, expected_size) ==
    LET size_diff == IF size >= expected_size THEN size - expected_size
                     ELSE expected_size - size
    IN  size_diff * 100 < expected_size

\* a choice among the matches that does not look at the sizes
pick_first_match(matches, expected_size) == matches[1].path

\* a choice that lets a stated size rule every candidate out
pick_match_strict(matches, expected_size) ==
    LET good == SelectSeq(matches, LAMBDA m : within_tolerance(m.size, expected_size))
    IN  IF expected_size > 0
        THEN (IF good # <<>> THEN good[1].path ELSE NoPath)
        ELSE matches[1].path

\* the choice among the matches of one cached filename
pick_match(matches, expected_size) ==
    LET good == SelectSeq(matches, LAMBDA m : within_tolerance(m.size, expected_size))
    IN  IF expected_size > 0 /\ good # <<>> THEN good[1].path ELSE matches[1].path

\* file_exists_in_cache on a built cache: the path, or NoPath for None
file_exists_in_cache(c, filename, expected_size) ==
    LET e == c.entries
        exact == SelectSeq(e, LAMBDA m : basename(m.path) = filename)
        loose == SelectSeq(e, LAMBDA m :
                     normalized_cached(basename(m.path)) = normalized_search(filename))
    IN  IF exact # <<>> THEN pick_match(exact, expected_size)
        ELSE IF loose # <<>>
        THEN pick_match(SelectSeq(e, LAMBDA m : basename(m.path) = basename(loose[1].path)),
                        expected_size)
        ELSE NoPath

\* the last entry of the index with that LBRY URL
LastMatch(idx, lbry_url) ==
    LET hits == {i \in 1..Len(idx) : idx[i].lbry_url = lbry_url}
    IN  IF hits = {} THEN {} ELSE {idx[MaxOf(hits)]}

\* the first entry of the index with that LBRY URL, as a set (empty: none)
FirstMatch(idx, lbry_url) ==
    LET hits == {i \in 1..Len(idx) : idx[i].lbry_url = lbry_url}
    IN  IF hits = {} THEN {} ELSE {idx[MinOf(hits)]}

\* an is_downloaded whose ledger rule accepts whatever entry the ledger holds
is_downloaded_any_entry(h, idx, f, detail_url, lbry_url) ==
    IF idx # <<>> /\ lbry_url # NoUrl /\ FirstMatch(idx, lbry_url) # {}
    THEN LET entry == CHOOSE r \in FirstMatch(idx, lbry_url) : TRUE
             filepath == entry.location
         IN  IF filepath # NoPath /\ exists(f, filepath)
             THEN InsideTree(filepath)
             ELSE FALSE
    ELSE get_entry_id(detail_url) \in DOMAIN h

\* is_downloaded(detail_url, lbry_url, expected_size)
is_downloaded(h, idx, f, detail_url, lbry_url) ==
    IF idx # <<>> /\ lbry_url # NoUrl /\ FirstMatch(idx, lbry_url) # {}
    THEN LET entry == CHOOSE r \in FirstMatch(idx, lbry_url) : TRUE
             filepath == entry.location
         IN  IF filepath # NoPath /\ exists(f, filepath)
             THEN InsideTree(filepath)
             ELSE FALSE
    ELSE LET entry_id == get_entry_id(detail_url)
         IN  IF entry_id \in DOMAIN h
             THEN LET entry == h[entry_id]
                      stored_filepath == Get(entry, "filepath", NoPath)
                  IN  IF Get(entry, "status", "") = "failed" THEN FALSE
                      ELSE /\ stored_filepath # NoPath
                           /\ exists(f, stored_filepath)
                           /\ InsideTree(stored_filepath)
             ELSE FALSE

\* the entry mark_downloaded writes
success_entry(f, detail_url, filepath, verified, file_size, now) ==
    [detail_url |-> detail_url, filepath |-> filepath, downloaded_at |-> now,
     file_exists |-> exists(f, filepath), verified |-> verified,
     file_size |-> file_size]

\* a failed entry that does not tell the reason
failed_entry_no_reason(detail_url, reason, lbry_url, now) ==
    [detail_url |-> detail_url, lbry_url |-> lbry_url, status |-> "failed",
     reason |-> "", failed_at |-> now]

\* the entry mark_failed writes
failed_entry(detail_url, reason, lbry_url, now) ==
    [detail_url |-> detail_url, lbry_url |-> lbry_url, status |-> "failed",
     reason |-> reason, failed_at |-> now]

\* a mark_downloaded that leaves the cache as it is
mark_downloaded_keeps_cache(h, c, f, detail_url, filepath, verified, file_size, now) ==
    [history |-> Put(h, get_entry_id(detail_url),
                     success_entry(f, detail_url, filepath, verified, file_size, now)),
     cache |-> c]

\* mark_downloaded: the new history and the new cache
mark_downloaded(h, c, f, detail_url, filepath, verified, file_size, now) ==
    [history |-> Put(h, get_entry_id(detail_url),
                     success_entry(f, detail_url, filepath, verified, file_size, now)),
     cache |-> IF c.built
               THEN [c EXCEPT !.entries = Append(@, [path |-> filepath, size |-> file_size])]
               ELSE c]

\* a mark_failed that records nothing
mark_failed_nothing(h, detail_url, reason, lbry_url, now) == h

\* mark_failed: the new history
mark_failed(h, detail_url, reason, lbry_url, now) ==
    Put(h, get_entry_id(detail_url), failed_entry(detail_url, reason, lbry_url, now))

(***************************************************************************)
(* IntentBasedOrganizer: the entries of the master index.                  *)
(***************************************************************************)
MiB == 1024 * 1024

\* f"{file_size / 1024 / 1024:.2f}", as the number of hundredths it prints
\* (format rounds to nearest, ties to even)
format_mb(file_size) ==
    LET q == (file_size * 100) \div MiB
        r == (file_size * 100) % MiB
    IN  IF 2 * r > MiB \/ (2 * r = MiB /\ q % 2 = 1) THEN q + 1 ELSE q

\* new_entry of add_to_index: the columns the dedup logic reads
new_entry(filename, filepath, lbry_url, detail_url, file_size) ==
    [file_name |-> filename, location |-> filepath, lbry_url |-> lbry_url,
     detail_url |-> detail_url, file_size_mb |-> format_mb(file_size)]

\* clean_for_excel on a string without control characters:
\* ' '.join(text.split()), which drops leading and trailing blanks and
\* keeps one blank of every run of blanks
clean_for_excel(t) ==
    LET keep == {i \in 1..Len(t) :
                    \/ t[i] # " "
                    \/ /\ i > 1 /\ t[i - 1] # " "
                       /\ \E j \in (i + 1)..Len(t) : t[j] # " "}
        nth(k) == CHOOSE i \in keep : Cardinality({j \in keep : j < i}) = k - 1
    IN  [k \in 1..Cardinality(keep) |-> t[nth(k)]]
clean_path(p) == [p EXCEPT !.name = clean_for_excel(@)]
clean_url(u) == [netloc |-> clean_for_excel(u.netloc), path |-> clean_for_excel(u.path)]

\* the row generate_master_index writes for an entry of master_index
index_row(e) ==
    [e EXCEPT !.file_name = clean_for_excel(@), !.location = clean_path(@),
              !.lbry_url = clean_url(@)]

\* generate_master_index: nothing is written for an empty master_index
generate_master_index(idx, file) ==
    IF idx = <<>> THEN file
    ELSE [present |-> TRUE, rows |-> [i \in 1..Len(idx) |-> index_row(idx[i])]]

\* a size test that lets every file through
size_matches_any(new_size, mb) == TRUE

\* reconcile_moved_files accepts the file found at new_size bytes for an
\* entry whose 'File Size (MB)' reads mb hundredths:
\* abs(new_size - old_size) < old_size * 0.01, old_size = float(mb) * 1024 * 1024
size_matches(new_size, mb) ==
    LET d == IF new_size * 100 >= mb * MiB THEN new_size * 100 - mb * MiB
             ELSE mb * MiB - new_size * 100
    IN  \* d * 100 < mb * MiB, kept within 32-bit integers
        mb > 0 /\ d <= (mb * MiB - 1) \div 100

\* a 'File Size (MB)' cell that float() rejects: blank (None) or not a number
Unparsable == -1

\* the try block around the size comparison: a cell that float() rejects
\* leads to the except branch, which takes the file found
accepts(f, p, mb) ==
    IF mb = Unparsable THEN TRUE ELSE size_matches(getsize(f, p), mb)

\* a reconciliation that also looks for a new place for a record whose file
\* is still where the record says
reconcile_entry_always(e, f, order) ==
    IF e.location = NoPath THEN e
    ELSE LET hits == SelectSeq(order, LAMBDA p :
                        /\ exists(f, p)
                        /\ basename(p) = basename(e.location)
                        /\ accepts(f, p, e.file_size_mb))
         IN  IF hits = <<>> THEN e ELSE [e EXCEPT !.location = hits[1]]

\* a reconciliation that takes a file of any name
reconcile_entry_any_name(e, f, order) ==
    IF e.location = NoPath \/ exists(f, e.location) THEN e
    ELSE LET hits == SelectSeq(order, LAMBDA p :
                        exists(f, p) /\ accepts(f, p, e.file_size_mb))
         IN  IF hits = <<>> THEN e ELSE [e EXCEPT !.location = hits[1]]

\* reconcile_moved_files for one entry; order is the os.walk order
reconcile_entry(e, f, order) ==
    IF e.location = NoPath \/ exists(f, e.location) THEN e
    ELSE LET hits == SelectSeq(order, LAMBDA p :
                        /\ exists(f, p)
                        /\ basename(p) = basename(e.location)
                        /\ accepts(f, p, e.file_size_mb))
         IN  IF hits = <<>> THEN e ELSE [e EXCEPT !.location = hits[1]]

reconcile_moved_files(idx, f, order) ==
    [i \in 1..Len(idx) |-> reconcile_entry(idx[i], f, order)]

\* load_existing_index: the rows with a File Name, reconciled; [] without file
load_existing_index(file, f, order) ==
    IF file.present
    THEN reconcile_moved_files(SelectSeq(file.rows, LAMBDA r : r.file_name # <<>>), f, order)
    ELSE <<>>

\* add_to_index: the first entry with this LBRY URL, File Name or Location is
\* replaced, otherwise the entry is appended
add_to_index(idx, filename, filepath, lbry_url, detail_url, file_size) ==
    LET e == new_entry(filename, filepath, lbry_url, detail_url, file_size)
        hits == {i \in 1..Len(idx) :
                    \/ idx[i].lbry_url = lbry_url /\ lbry_url # NoUrl
                    \/ idx[i].file_name = filename
                    \/ idx[i].location = filepath}
    IN  IF hits = {} THEN Append(idx, e) ELSE [idx EXCEPT ![MinOf(hits)] = e]

\* what a file holds, as far as the verifier looks: an archive whose scan
\* passes (magic bytes PK, testzip() finds nothing), an archive whose scan
\* fails (magic bytes PK, testzip() names a member or ZipFile raises), or
\* anything else
Contents == {"zip", "corrupt zip", "other"}

\* os.path.splitext(filepath)[1].lower(): from the last dot on, or empty
splitext_ext(s) ==
    LET dots == Positions(s, ".")
    IN  IF dots = {} \/ MaxOf(dots) = 1 THEN <<>>
        ELSE lower(SubSeq(s, MaxOf(dots), Len(s)))

\* the extension that stands for '.zip', and cad_formats, in the alphabet of
\* Names
ZipExt == <<".", "z">>
cad_formats == {<<".", "s">>}

\* FileVerifier.is_zip_file: the magic bytes are PK
is_zip_file(content) == content \in {"zip", "corrupt zip"}

\* FileVerifier.verify_zip: the verdict of the scan, every exception caught
verify_zip(content) ==
    IF content = "zip" THEN [ok |-> TRUE, message |-> "Valid zip"]
    ELSE [ok |-> FALSE, message |-> "Not a valid zip"]

\* a verifier that accepts no file
verify_file_never(f, p, content) == [ok |-> FALSE, message |-> "File not found"]

\* a verifier that believes the scan of an archive
verify_file_strict(f, p, content) ==
    IF ~exists(f, p) THEN [ok |-> FALSE, message |-> "File not found"]
    ELSE IF getsize(f, p) = 0 THEN [ok |-> FALSE, message |-> "File is empty"]
    ELSE IF splitext_ext(basename(p)) = ZipExt \/ is_zip_file(content)
    THEN verify_zip(content)
    ELSE [ok |-> TRUE, message |-> "File downloaded"]

\* FileVerifier.verify_file: (is_valid, message)
verify_file(f, p, content) ==
    IF ~exists(f, p) THEN [ok |-> FALSE, message |-> "File not found"]
    ELSE IF getsize(f, p) = 0 THEN [ok |-> FALSE, message |-> "File is empty"]
    ELSE IF splitext_ext(basename(p)) = ZipExt \/ is_zip_file(content)
    THEN IF verify_zip(content).ok THEN verify_zip(content)
         ELSE [ok |-> TRUE, message |-> "File downloaded - may not be standard zip"]
    ELSE IF splitext_ext(basename(p)) \in cad_formats
    THEN [ok |-> TRUE, message |-> "Valid CAD file"]
    ELSE [ok |-> TRUE, message |-> "File downloaded"]

\* f"Verification: {message}" for the two messages of a rejection
verification_reason(message) ==
    IF message = "File is empty" THEN "Verification: File is empty"
    ELSE "Verification: File not found"

(***************************************************************************)
(* State.                                                                  *)
(***************************************************************************)
VARIABLES
    pc,        \* position of the single thread of control
    fs,        \* the filesystem: path -> size in bytes, or NoFile
    lat,       \* duration of one daemon call (at most CallTimeout)
    dpaths,    \* the paths the daemon may save to and report
    attempt,   \* get_file: the for loop's attempt
    wd,        \* wait_for_download: its local variables
    ret,       \* get_file: the returned path, or NoPath for None
    gh,        \* observations of the current get_file call (not program state)
    plan,      \* how the daemon behaves for the current locator
    io,        \* whether the calls of the operating system may fail
    history,          \* DownloadTracker.history
    db_file,          \* the contents of download_history.json
    filesystem_cache, \* DownloadTracker.filesystem_cache
    master_index,     \* IntentBasedOrganizer.master_index = tracker.excel_index
    index_file,       \* the rows of GunCAD_Master_Index.xlsx
    clk,       \* datetime.now(), advanced by every ledger write
    obs,       \* observations of the tracker's calls (not program state)
    catalog,   \* the entries the API returns (the catalog snapshot)
    app,       \* GunCADDownloaderV6: its fields and the locals of run()
    rg         \* observations across runs (not program state)

acqVars == <<attempt, wd, ret, gh>>
envVars == <<lat, dpaths, plan, io>>
trkVars == <<history, db_file, filesystem_cache, clk>>
idxVars == <<master_index, index_file>>
runVars == <<catalog, app, rg>>
vars == <<pc, fs, lat, dpaths, attempt, wd, ret, gh, plan, io, history, db_file,
          filesystem_cache, master_index, index_file, clk, obs, catalog, app, rg>>

(***************************************************************************)
(* The daemon (external): its answers and what it does to its files.       *)
(***************************************************************************)
\* the daemon's statuses in the polls explored; "finished" is treated by the
\* code exactly as "completed" and is explored in the answers to 'get' only
Statuses == {"running", "completed", "stopped", "unknown"}

\* _call_method returned None (no response, HTTP error, 'error' in data)
NoResult == [kind |-> "none"]
\* file_list answered with an empty 'items' list
NoItems == [kind |-> "empty"]

\* results of _call_method('get', ...)
GetAnswers ==
    {NoResult} \cup
    [kind : {"result"}, status : Statuses \cup {"finished"},
     download_path : dpaths \cup {NoPath}]

\* results of _call_method('file_list', ...): items[0], with or without the
\* written_bytes / total_bytes fields
PollAnswers ==
    {NoResult, NoItems} \cup
    [kind : {"item"}, status : Statuses, download_path : dpaths \cup {NoPath},
     fields : {TRUE}, written_bytes : 0..MaxBytes] \cup
    [kind : {"item"}, status : Statuses, download_path : dpaths \cup {NoPath},
     fields : {FALSE}, written_bytes : {0}]

\* while a call is under way the daemon may create, truncate, fill or remove
\* one of its files
DaemonWrites(f) ==
    {[f EXCEPT ![p] = s] : p \in dpaths, s \in {NoFile, 0, 1}}

\* the entry run() is processing
CurrentEntry == app.all_entries[app.i + 1]

\* where the daemon saves the content of a locator
DaemonName(u) == IF u = LbryA THEN NameABz ELSE NameCz
\* the directory the daemon is configured to save to
DaemonDir == (CHOOSE p \in dpaths : TRUE).dir
DaemonPath(u) == Path(DaemonDir, DaemonName(u))

\* the sizes of the files a transfer can end with: under and over the size
\* that 'File Size (MB)' can tell from zero
GoodSizes == {SizeNear, MiB}

\* the answers of a daemon that is transferring: running, with byte counts
\* that may go up and down, or no answer
BusyAnswers ==
    {NoResult} \cup
    [kind : {"item"}, status : {"running"}, download_path : dpaths \cup {NoPath},
     fields : {TRUE}, written_bytes : 0..MaxBytes]

\* the answers of a daemon that has the transfer down as done: completed or
\* finished, with or without byte counts
DoneAnswers ==
    [kind : {"item"}, status : {"completed", "finished"},
     download_path : dpaths \cup {NoPath},
     fields : {TRUE}, written_bytes : 0..MaxBytes] \cup
    [kind : {"item"}, status : {"completed", "finished"},
     download_path : dpaths \cup {NoPath},
     fields : {FALSE}, written_bytes : {0}]

\* the answers of a daemon whose written_bytes never goes up, or that does
\* not answer: no result, no items, running or completed without byte counts
\* or with written_bytes 0
IdleAnswers ==
    {NoResult, NoItems} \cup
    [kind : {"item"}, status : {"running", "completed"},
     download_path : dpaths \cup {NoPath},
     fields : BOOLEAN, written_bytes : {0}]

\* the answers of a daemon that is transferring or not answering: no
\* result, no items, or running, with byte counts that may go up and down
\* or without byte counts
SlowAnswers ==
    {NoResult, NoItems} \cup
    [kind : {"item"}, status : {"running"}, download_path : dpaths,
     fields : {TRUE}, written_bytes : 0..MaxBytes] \cup
    [kind : {"item"}, status : {"running"}, download_path : dpaths,
     fields : {FALSE}, written_bytes : {0}]

\* the daemon under a plan: "any" answers anything, "dead" never answers,
\* "busy" accepts every 'get' and answers the polls with BusyAnswers, "done"
\* accepts every 'get' and answers the polls with DoneAnswers, "idle"
\* accepts every 'get', answers the polls with IdleAnswers and writes no
\* file, "slow" accepts every 'get', answers the polls with SlowAnswers and
\* writes no file, "good"
\* reports running with growing written_bytes and then completed with the
\* whole file at its path
DaemonGet ==
    IF plan = "any" THEN GetAnswers
    ELSE IF plan = "dead" THEN {NoResult}
    ELSE IF plan \in {"busy", "done", "idle", "slow"}
    THEN {[kind |-> "result", status |-> "running", download_path |-> NoPath]}
    ELSE {[kind |-> "result", status |-> "running",
           download_path |-> DaemonPath(CurrentEntry.lbry_url)]}

DaemonPoll ==
    IF plan = "any" THEN PollAnswers
    ELSE IF plan = "dead" THEN {NoResult}
    ELSE IF plan = "busy" THEN BusyAnswers
    ELSE IF plan = "done" THEN DoneAnswers
    ELSE IF plan = "idle" THEN IdleAnswers
    ELSE IF plan = "slow" THEN SlowAnswers
    ELSE {[kind |-> "item",
           status |-> IF wd.last_written_bytes < MaxBytes THEN "running" ELSE "completed",
           download_path |-> DaemonPath(CurrentEntry.lbry_url), fields |-> TRUE,
           written_bytes |-> IF wd.last_written_bytes < MaxBytes
                             THEN wd.last_written_bytes + 1 ELSE MaxBytes]}

DaemonFiles(ans) ==
    IF plan \in {"any", "done"} THEN DaemonWrites(fs)
    ELSE IF plan = "good" /\ ans.kind = "item" /\ ans.status = "completed"
    THEN {[fs EXCEPT ![ans.download_path] = z] : z \in GoodSizes}
    ELSE {fs}

(***************************************************************************)
(* LBRYDaemonClient.get_file                                               *)
(***************************************************************************)
NewWait ==
    [elapsed |-> 0, last_written_bytes |-> 0, stall_start_time |-> NoTime,
     last_download_path |-> NoPath]

\* gets: 'get' calls issued; slept: time spent in the retry sleeps;
\* entered: wait_for_download was called; polled: 'file_list' was called;
\* noresult: every 'get' so far had no result; uniform: every poll of the
\* current loop so far answered "running" with written_bytes = firstw;
\* how: the branch taken last; lastpath: the download_path of the answer on
\* which the last loop returned; got: status and download_path of the last
\* answer to 'get', when it reported completed, finished or stopped;
\* status: the status of the last answer to 'get', "" when it had no result
NoGot == [status |-> "", download_path |-> NoPath]
NewObs ==
    [gets |-> 0, slept |-> 0, entered |-> FALSE, polled |-> FALSE,
     noresult |-> TRUE, uniform |-> FALSE, firstw |-> 0, how |-> "none",
     lastpath |-> NoPath, got |-> NoGot, status |-> ""]

\* a get_file whose first failed attempt is its last
NextAttemptNoRetry(a) ==
    /\ pc' = "gf_return"
    /\ attempt' = a + 1
    /\ ret' = NoPath

\* a get_file that makes one attempt too many
NextAttemptOneMore(a) ==
    IF a + 1 <= max_retries
    THEN /\ pc' = "get_file"
         /\ attempt' = a + 1
         /\ ret' = ret
    ELSE /\ pc' = "gf_return"
         /\ attempt' = a + 1
         /\ ret' = NoPath

\* a get_file that counts a failed attempt twice
NextAttemptCountsTwice(a) ==
    IF a + 2 < max_retries
    THEN /\ pc' = "get_file"
         /\ attempt' = a + 2
         /\ ret' = ret
    ELSE /\ pc' = "gf_return"
         /\ attempt' = a + 2
         /\ ret' = NoPath

\* "continue" / falling off the end of the loop body: the next attempt, or
\* "return None" after the last one
NextAttempt(a) ==
    IF a + 1 < max_retries
    THEN /\ pc' = "get_file"
         /\ attempt' = a + 1
         /\ ret' = ret
    ELSE /\ pc' = "gf_return"
         /\ attempt' = a + 1
         /\ ret' = NoPath

\* one iteration of "for attempt in range(max_retries)" up to its return,
\* its continue or its call of wait_for_download
get_file_attempt ==
    /\ pc = "get_file"
    /\ attempt < max_retries
    /\ \E ans \in DaemonGet : \E f \in DaemonFiles(ans) :
        LET sleep == IF attempt > 0 THEN RetrySleep ELSE 0
            g == [gh EXCEPT !.gets = @ + 1, !.slept = @ + sleep,
                            !.noresult = @ /\ ans = NoResult,
                            !.uniform = FALSE, !.firstw = 0,
                            !.lastpath = NoPath,
                            !.got = IF ans # NoResult
                                       /\ ans.status \in {"completed", "finished", "stopped"}
                                    THEN [status |-> ans.status,
                                          download_path |-> ans.download_path]
                                    ELSE NoGot,
                            !.status = IF ans = NoResult THEN "" ELSE ans.status]
        IN  /\ fs' = f
            /\ UNCHANGED <<envVars, trkVars, idxVars, obs, runVars>>
            /\ IF ans = NoResult
               THEN /\ NextAttempt(attempt)
                    /\ gh' = [g EXCEPT !.how = "no result"]
                    /\ wd' = wd
               ELSE IF ans.status \in {"completed", "finished"}
                        /\ Materialized(f, ans.download_path)
               THEN /\ pc' = "gf_return"
                    /\ ret' = ans.download_path
                    /\ gh' = [g EXCEPT !.how = "get completed"]
                    /\ UNCHANGED <<attempt, wd>>
               ELSE IF ans.status = "running"
               THEN /\ pc' = "wait_for_download"
                    /\ wd' = NewWait
                    /\ gh' = [g EXCEPT !.entered = TRUE, !.uniform = TRUE,
                                       !.how = "running"]
                    /\ UNCHANGED <<attempt, ret>>
               ELSE IF ans.status = "stopped"
                        /\ Materialized(f, ans.download_path)
               THEN /\ pc' = "gf_return"
                    /\ ret' = ans.download_path
                    /\ gh' = [g EXCEPT !.how = "get stopped"]
                    /\ UNCHANGED <<attempt, wd>>
               ELSE /\ NextAttempt(attempt)
                    /\ gh' = [g EXCEPT !.how = "other"]
                    /\ wd' = wd

(***************************************************************************)
(* LBRYDaemonClient.wait_for_download                                      *)
(***************************************************************************)
Return(w, v, why) == [done |-> TRUE, value |-> v, w |-> w, how |-> why]
\* the time.sleep(2) that ends an iteration; now is time.time() - start_time
Continue(w, now) ==
    [done |-> FALSE, value |-> NoPath,
     w |-> [w EXCEPT !.elapsed = now + PollSleep], how |-> "polling"]

\* a stall test that fires at the threshold already
StallExpiredAtThreshold(now, since) == now - since >= stall_threshold

\* "time.time() - stall_start_time > stall_threshold"
StallExpired(now, since) == now - since > stall_threshold

\* "if elapsed > 60"
NoStatusExpired(elapsed) == elapsed > NoStatusLimit

\* the status branches that follow the byte-progress block
poll_status(w, f, ans, now) ==
    IF ans.status \in {"completed", "finished"}
    THEN IF ans.download_path # NoPath /\ exists(f, ans.download_path)
         THEN Return(w, ans.download_path, "poll completed")
         ELSE Continue(w, now)
    ELSE IF ans.status = "stopped"
    THEN IF Materialized(f, ans.download_path)
         THEN Return(w, ans.download_path, "poll stopped")
         ELSE Return(w, NoPath, "stopped without file")
    ELSE Continue(w, now)

\* one iteration of "while True": w holds the locals, w.elapsed is
\* time.time() - start_time at the top of the iteration, l the duration of the
\* file_list call, f the filesystem when the call has returned
poll_iteration(w, f, ans, l) ==
    LET elapsed == w.elapsed
        now == w.elapsed + l
    IN  IF ans = NoResult
        THEN IF NoStatusExpired(elapsed)
             THEN Return(w, NoPath, "no api response")
             ELSE Continue(w, now)
        ELSE IF ans = NoItems
        THEN IF NoStatusExpired(elapsed)
             THEN Return(w, NoPath, "no items")
             ELSE Continue(w, now)
        ELSE
        LET w1 == IF ans.download_path # NoPath
                  THEN [w EXCEPT !.last_download_path = ans.download_path]
                  ELSE w
        IN  IF ~ans.fields
            THEN poll_status(w1, f, ans, now)
            ELSE IF ans.written_bytes > w1.last_written_bytes
            THEN poll_status([w1 EXCEPT !.stall_start_time = NoTime,
                                        !.last_written_bytes = ans.written_bytes],
                             f, ans, now)
            ELSE IF w1.stall_start_time = NoTime
            THEN poll_status([w1 EXCEPT !.stall_start_time = now], f, ans, now)
            ELSE IF StallExpired(now, w1.stall_start_time)
            THEN IF Materialized(f, ans.download_path)
                 THEN Return(w1, ans.download_path, "stalled with file")
                 ELSE Return(w1, NoPath, "stalled")
            ELSE poll_status(w1, f, ans, now)

\* the observer: whether every poll of this loop, this one included, answered
\* "running" with one and the same written_bytes
Observe(g, ans, first) ==
    IF ans.kind = "item" /\ ans.fields /\ ans.status = "running"
    THEN [g EXCEPT !.uniform = @ /\ (first \/ g.firstw = ans.written_bytes),
                   !.firstw = IF first THEN ans.written_bytes ELSE @,
                   !.polled = TRUE]
    ELSE [g EXCEPT !.uniform = FALSE, !.firstw = 0, !.polled = TRUE]

\* the observer of the byte counts, where one is set up: whether the last
\* poll of the current loop reported byte counts, and its written_bytes
NewPollObs == [bytes |-> FALSE, written_bytes |-> 0]
\* the observer of the statuses, where one is set up: status and
\* download_path of the last poll of the current loop
NewStatusObs == [status |-> "", download_path |-> NoPath]
\* the observer of the increases, where one is set up: rose is the time, on
\* the loop's clock, at which the last poll that reported more written_bytes
\* than the report before it was answered (0, the first poll, when none
\* did), last the written_bytes of the last report (0 before any)
NewRiseObs == [rose |-> 0, last |-> 0]
ObserveRise(o, ans) ==
    LET b == IF wd.elapsed = 0 THEN NewRiseObs ELSE o
    IN  IF ans.kind = "item" /\ ans.fields
        THEN [rose |-> IF ans.written_bytes > b.last THEN wd.elapsed + lat ELSE b.rose,
              last |-> ans.written_bytes]
        ELSE b
ObservePoll(o, ans) ==
    IF "rose" \in DOMAIN o THEN ObserveRise(o, ans)
    ELSE IF "bytes" \in DOMAIN o
    THEN IF ans.kind = "item" /\ ans.fields
         THEN [bytes |-> TRUE, written_bytes |-> ans.written_bytes]
         ELSE NewPollObs
    ELSE IF "status" \in DOMAIN o
    THEN IF ans.kind = "item"
         THEN [status |-> ans.status, download_path |-> ans.download_path]
         ELSE NewStatusObs
    ELSE o

\* The loop's clock has no upper bound. Its readings enter two tests only,
\* "elapsed > 60" and "time.time() - stall_start_time > stall_threshold";
\* readings past ClockCap are therefore kept as ClockCap, the stall timer
\* moved back by the same amount and kept within stall_threshold + 1 of it,
\* which leaves the outcome of both tests at every later poll unchanged.
\* Under the plan "idle" the loop is followed without a bound on time in
\* this way; under the other plans it is followed up to MaxTime.
ClockCap == NoStatusLimit + PollSleep
CapClock(w) ==
    IF plan # "idle" \/ w.elapsed <= ClockCap THEN w
    ELSE LET shift == w.elapsed - ClockCap
             floor == ClockCap - stall_threshold - 1
         IN  [w EXCEPT !.elapsed = ClockCap,
                       !.stall_start_time =
                           IF @ = NoTime THEN NoTime
                           ELSE IF @ - shift < floor THEN floor
                           ELSE @ - shift]

\* one poll of the loop; when the loop returns, get_file either returns the
\* path or goes on ("continue") with its next attempt
wait_for_download ==
    /\ pc = "wait_for_download"
    /\ wd.elapsed <= MaxTime
    /\ \E ans \in DaemonPoll : \E f \in DaemonFiles(ans) :
        LET r == poll_iteration(wd, f, ans, lat)
            g == [Observe(gh, ans, wd.elapsed = 0) EXCEPT !.how = r.how]
        IN  /\ fs' = f
            /\ obs' = ObservePoll(obs, ans)
            /\ UNCHANGED <<envVars, trkVars, idxVars, runVars>>
            /\ IF ~r.done
               THEN /\ wd' = CapClock(r.w)
                    /\ gh' = g
                    /\ UNCHANGED <<pc, attempt, ret>>
               ELSE /\ wd' = [NewWait EXCEPT !.elapsed = r.w.elapsed]
                    /\ gh' = [g EXCEPT !.lastpath = IF ans.kind = "item"
                                                      THEN ans.download_path
                                                      ELSE NoPath]
                    /\ IF r.value # NoPath
                       THEN /\ pc' = "gf_return"
                            /\ ret' = r.value
                            /\ attempt' = attempt
                       ELSE NextAttempt(attempt)

(***************************************************************************)
(* DownloadTracker called on its own: the ledger writes, and the two       *)
(* lookups of the dedup check.                                             *)
(***************************************************************************)
\* the last write per detail_url as the caller made it, and the kind of the
\* write before it; the last lookup and what it returned; scans: the scans
\* of the tree so far; looked: file_exists_in_cache has been called; added:
\* the paths mark_downloaded was called with while the cache was built
NoWrite ==
    [kind |-> "none", before |-> "none", filepath |-> NoPath, verified |-> FALSE,
     file_size |-> 0, file_exists |-> FALSE, reason |-> "", lbry_url |-> NoUrl,
     now |-> 0]
NewTrackerObs ==
    [written |-> [d \in DetailUrls |-> NoWrite],
     call |-> "none", detail_url |-> "", lbry_url |-> NoUrl, acquired |-> FALSE,
     filename |-> <<>>, expected_size |-> 0, found |-> NoPath,
     scans |-> 0, looked |-> FALSE, added |-> {}]

\* the orders in which os.walk can list the files of the tree: directory by
\* directory, the directories and the names of a directory in any order
Perms(S) ==
    {q \in [1..Cardinality(S) -> S] : \A i, j \in DOMAIN q : i # j => q[i] # q[j]}
TreeOrders ==
    {[i \in 1..(Cardinality(TreeDirs) * Cardinality(Names)) |->
        Path(ds[((i - 1) \div Cardinality(Names)) + 1],
             ns[((i - 1) % Cardinality(Names)) + 1])] :
     ds \in Perms(TreeDirs), ns \in Perms(Names)}
\* with README.md, which a scan passes over wherever the walk meets it
WalkOrders == {<<ReadmePath>> \o w : w \in TreeOrders}

\* a caller records a success
tracker_mark_downloaded ==
    /\ pc \in {"ledger", "tracker"}
    /\ clk < MaxWrites
    /\ \E d \in DetailUrls, n \in {NameABz, NameCz}, v \in BOOLEAN :
        LET p == Path(DirCat1, n)
            size == IF exists(fs, p) THEN getsize(fs, p) ELSE 0
            r == mark_downloaded(history, filesystem_cache, fs, d, p, v, size, clk)
        IN  /\ history' = r.history
            /\ db_file' = save_history(r.history)
            /\ filesystem_cache' = r.cache
            /\ clk' = clk + 1
            /\ obs' = [obs EXCEPT !.written[d] =
                          [NoWrite EXCEPT !.kind = "downloaded", !.before = obs.written[d].kind,
                                          !.filepath = p, !.verified = v, !.file_size = size,
                                          !.file_exists = exists(fs, p), !.now = clk],
                                   !.added = IF filesystem_cache.built THEN @ \cup {p} ELSE @]
    /\ UNCHANGED <<pc, fs, envVars, acqVars, idxVars, runVars>>

\* a caller records a failure
tracker_mark_failed ==
    /\ pc \in {"ledger", "tracker"}
    /\ clk < MaxWrites
    /\ \E d \in DetailUrls, u \in {LbryA, NoUrl} :
        LET reason == IF u = NoUrl THEN "No LBRY URL" ELSE "Download failed"
            h == mark_failed(history, d, reason, u, clk)
        IN  /\ history' = h
            /\ db_file' = save_history(h)
            /\ clk' = clk + 1
            /\ obs' = [obs EXCEPT !.written[d] =
                          [NoWrite EXCEPT !.kind = "failed", !.before = obs.written[d].kind,
                                          !.reason = reason, !.lbry_url = u, !.now = clk]]
    /\ UNCHANGED <<pc, fs, envVars, acqVars, idxVars, filesystem_cache, runVars>>

\* a caller asks is_downloaded
tracker_is_downloaded ==
    /\ pc \in {"dedup", "tracker"}
    /\ \E d \in {"d1"}, u \in {LbryA, NoUrl} :
        obs' = [obs EXCEPT !.call = "is_downloaded", !.detail_url = d, !.lbry_url = u,
                           !.acquired = is_downloaded(history, master_index, fs, d, u)]
    /\ UNCHANGED <<pc, fs, envVars, acqVars, trkVars, idxVars, runVars>>

\* a caller asks file_exists_in_cache, which builds the cache when it is None
tracker_file_exists_in_cache ==
    /\ pc \in {"dedup", "tracker"}
    /\ \E n \in {NameABz, NameAb}, e \in {0, ExpectedSize},
          o \in IF filesystem_cache.built THEN {<<>>} ELSE WalkOrders :
        LET c == IF filesystem_cache.built THEN filesystem_cache
                 ELSE build_filesystem_cache(fs, o)
        IN  /\ filesystem_cache' = c
            /\ obs' = [obs EXCEPT !.call = "file_exists_in_cache", !.filename = n,
                                  !.expected_size = e,
                                  !.found = file_exists_in_cache(c, n, e),
                                  !.scans = IF filesystem_cache.built THEN @ ELSE @ + 1,
                                  !.looked = TRUE]
    /\ UNCHANGED <<pc, fs, envVars, acqVars, idxVars, history, db_file, clk, runVars>>

(***************************************************************************)
(* GunCADDownloaderV6: construction, run() and process_entry.              *)
(***************************************************************************)
\* a parsed catalog entry: the fields the orchestration reads; folder is the
\* folder get_folder_path derives from title, tags and description, and
\* excluded tells whether one of its tags is in excluded_tags
E1 ==
    [detail_url |-> "d1", lbry_url |-> LbryA, size |-> 0, folder |-> DirCat1,
     excluded |-> FALSE]
E2 ==
    [detail_url |-> "d2", lbry_url |-> LbryB, size |-> ExpectedSize,
     folder |-> DirCat1, excluded |-> FALSE]
\* an entry the API lists without 'url_lbry'
E3 == [E1 EXCEPT !.lbry_url = NoUrl]
\* an entry whose API record states a size
E4 == [E1 EXCEPT !.size = SizeFar]
\* an entry with a tag of excluded_tags
E5 == [E1 EXCEPT !.excluded = TRUE]
\* a second entry without 'url_lbry'
E6 == [E2 EXCEPT !.lbry_url = NoUrl]
Catalogs == {<<E1>>, <<E2>>, <<E1, E2>>, <<E3>>, <<E4>>, <<E5, E2>>, <<E5, E6>>}

get_folder_path(e) == e.folder

NewApp ==
    [available |-> FALSE, all_entries |-> <<>>, i |-> 0, session_successful |-> 0,
     session_failed |-> 0, session_skipped_by_filter |-> 0]

\* the files of the managed tree
TreePaths == {p \in AllPaths : InsideTree(p)}
Tree(f) == [p \in TreePaths |-> f[p]]

\* run: the runs constructed so far; touched: the user has changed the tree
\* or the index file since the last run ended; inrow: the last run began
\* with nothing touched since the run before it; snap, prev: ledger and tree
\* when the last run ended and when the run before it ended; gets: the
\* locators get_file was called for in the last run; ok, okprev: the
\* detail URLs the last run, and the run before it, recorded as success;
\* succ: per locator, the run that last recorded a fetch of it as success
\* and the name of the file; verify: the last verdict of verify_file in the
\* last run; fault: the call of the operating system that failed for the
\* last item get_file was called for; probe: the daemon answered the 'status' call of the last
\* construction; fetched: the last run asked the API for the catalog
NoFetch == [run |-> 0, name |-> <<>>]
NoSnap == [history |-> NoHistory, files |-> Tree([p \in AllPaths |-> NoFile])]
NewRunObs ==
    [run |-> 0, touched |-> FALSE, inrow |-> FALSE, snap |-> NoSnap, prev |-> NoSnap,
     gets |-> {}, ok |-> {}, okprev |-> {}, succ |-> [u \in Lbrys |-> NoFetch],
     verify |-> "none", fault |-> "none", probe |-> FALSE, fetched |-> FALSE]
EndOfRun(g, h, f) ==
    [g EXCEPT !.snap = [history |-> h, files |-> Tree(f)], !.prev = g.snap,
              !.inrow = ~g.touched, !.touched = FALSE]

\* a filter that takes every entry for new
every_entry_new(cat, h, idx, f) == cat

\* run(): "if not self.tracker.is_downloaded(...): new_entries.append(e)"
new_entries(cat, h, idx, f) ==
    SelectSeq(cat, LAMBDA e : ~is_downloaded(h, idx, f, e.detail_url, e.lbry_url))

\* the daemon's answers to 'status'
StatusAnswers == {NoResult, [kind |-> "status"]}

\* a probe that finds the daemon whatever it answers
check_connection_always(response) == TRUE

\* LBRYDaemonClient.check_connection: the value it leaves in self.available
check_connection(response) == response # NoResult

\* GunCADDownloaderV6.__init__ in a fresh process: the organizer loads and
\* reconciles the index, the tracker loads the ledger, the client probes the
\* daemon
construct ==
    /\ pc = "done"
    /\ rg.run < MaxRuns
    /\ \E response \in StatusAnswers,
          o \in IF index_file.present THEN WalkOrders ELSE {<<>>} :
        /\ master_index' = load_existing_index(index_file, fs, o)
        /\ app' = [NewApp EXCEPT !.available = check_connection(response)]
        /\ rg' = [rg EXCEPT !.run = @ + 1, !.verify = "none", !.fault = "none",
                            !.gets = {}, !.ok = {}, !.okprev = rg.ok,
                            !.probe = response # NoResult, !.fetched = FALSE]
    /\ history' = load_history(db_file)
    /\ filesystem_cache' = NoCache
    /\ pc' = "run"
    /\ UNCHANGED <<fs, envVars, acqVars, db_file, index_file, clk, obs, catalog>>

\* run() up to its loop: the early returns and the check_new_only filter
run_begin ==
    /\ pc = "run"
    /\ IF ~app.available
       THEN /\ pc' = "done"
            /\ rg' = EndOfRun(rg, history, fs)
            /\ UNCHANGED <<app, index_file>>
       ELSE LET new == new_entries(catalog, history, master_index, fs)
            IN  IF new = <<>>
                THEN /\ index_file' = generate_master_index(master_index, index_file)
                     /\ pc' = "done"
                     /\ rg' = EndOfRun([rg EXCEPT !.fetched = TRUE], history, fs)
                     /\ app' = [app EXCEPT !.all_entries = new]
                ELSE /\ app' = [app EXCEPT !.all_entries = new, !.i = 0]
                     /\ pc' = "process_entry"
                     /\ rg' = [rg EXCEPT !.fetched = TRUE]
                     /\ UNCHANGED index_file
    /\ UNCHANGED <<fs, envVars, acqVars, trkVars, master_index, obs, catalog>>

\* what download_history.json holds after a save_history that raised: what
\* it held when open() failed, nothing readable when the dump failed
Unreadable == Torn(NoHistory)
FailedSaves(db) == {db, Unreadable}

\* an exception leaves process_entry: run() has no handler, main() prints
\* the error and the process ends.  f2, h2, c2 and idx2 are the filesystem,
\* ledger, cache and index at that moment, db2 the ledger file
Raise(f2, h2, db2, c2, idx2, g2, fault) ==
    /\ pc' = "crashed"
    /\ fs' = f2
    /\ history' = h2
    /\ db_file' = db2
    /\ clk' = clk
    /\ filesystem_cache' = c2
    /\ master_index' = idx2
    /\ rg' = [g2 EXCEPT !.fault = fault]
    /\ UNCHANGED <<index_file, app>>

\* a tally in which a failed item counts as filtered as well
session_count_twice(a, outcome) ==
    [a EXCEPT
       !.session_successful = IF outcome = "success" THEN @ + 1 ELSE @,
       !.session_failed = IF outcome = "failed" THEN @ + 1 ELSE @,
       !.session_skipped_by_filter = IF outcome # "success" THEN @ + 1 ELSE @]

\* the "+= 1" on the session counter of the path process_entry returns on
session_count(a, outcome) ==
    [a EXCEPT
       !.session_successful = IF outcome = "success" THEN @ + 1 ELSE @,
       !.session_failed = IF outcome = "failed" THEN @ + 1 ELSE @,
       !.session_skipped_by_filter = IF outcome = "skipped" THEN @ + 1 ELSE @]

\* process_entry has returned: the rest of the loop body of run() and, after
\* the last entry, the end of run().  f2, h2, c2 and idx2 are the filesystem,
\* ledger, cache and index the entry leaves, wrote tells whether the ledger
\* was written, outcome which session counter goes up
Returned(f2, h2, c2, idx2, wrote, outcome, g2) ==
    LET n == app.i + 1
        last == n = Len(app.all_entries)
    IN  /\ fs' = f2
        /\ history' = h2
        /\ db_file' = IF wrote THEN save_history(h2) ELSE db_file
        /\ clk' = IF wrote THEN clk + 1 ELSE clk
        /\ filesystem_cache' = c2
        /\ master_index' = idx2
        /\ index_file' = IF n % batch_update_interval = 0 \/ last
                         THEN generate_master_index(idx2, index_file)
                         ELSE index_file
        /\ app' = [session_count(app, outcome) EXCEPT !.i = n]
        /\ pc' = IF last THEN "done" ELSE "process_entry"
        /\ rg' = IF last THEN EndOfRun(g2, h2, f2) ELSE g2

\* the last statements of a path through process_entry that records no
\* success: mark_failed when wrote, the counter, the return.  mark_failed
\* replaces the entry in memory and then calls save_history, which may raise
EntryDone(f2, h2, c2, idx2, wrote, outcome, g2) ==
    \/ Returned(f2, h2, c2, idx2, wrote, outcome, g2)
    \/ /\ io = "faulty" /\ wrote
       /\ \E db2 \in FailedSaves(db_file) :
            Raise(f2, h2, db2, filesystem_cache, idx2, g2, "save_history")

\* process_entry from its start to its return, or to its call of get_file
process_entry_begin ==
    /\ pc = "process_entry"
    /\ UNCHANGED <<lat, dpaths, io, obs, catalog>>
    /\ LET e == CurrentEntry
       IN  IF e.excluded
           THEN /\ EntryDone(fs, history, filesystem_cache, master_index, FALSE, "skipped", rg)
                /\ UNCHANGED <<plan, acqVars>>
           ELSE IF e.lbry_url = NoUrl
           THEN /\ EntryDone(fs, mark_failed(history, e.detail_url, "No LBRY URL", NoUrl, clk),
                             filesystem_cache, master_index, TRUE, "failed", rg)
                /\ UNCHANGED <<plan, acqVars>>
           ELSE \E o \in IF filesystem_cache.built THEN {<<>>} ELSE WalkOrders :
                LET name == expected_filename(e.lbry_url)
                    c == IF name = <<>> \/ filesystem_cache.built THEN filesystem_cache
                         ELSE build_filesystem_cache(fs, o)
                    existing_path == IF name = <<>> THEN NoPath
                                     ELSE file_exists_in_cache(c, name, e.size)
                IN  IF existing_path # NoPath /\ ~exists(fs, existing_path)
                    THEN \* os.path.getsize raises and run() is left
                         /\ Raise(fs, history, db_file, c, master_index, rg, "getsize")
                         /\ UNCHANGED <<plan, acqVars>>
                    ELSE IF existing_path # NoPath
                    THEN LET file_size == getsize(fs, existing_path)
                             idx2 == add_to_index(master_index, name, existing_path,
                                                  e.lbry_url, e.detail_url, file_size)
                             r == mark_downloaded(history, c, fs, e.detail_url,
                                                  existing_path, TRUE, file_size, clk)
                         IN  /\ UNCHANGED <<plan, acqVars>>
                             /\ \/ Returned(fs, r.history, r.cache, idx2, TRUE, "success",
                                            [rg EXCEPT !.ok = @ \cup {e.detail_url}])
                                \/ /\ io = "faulty"
                                   /\ Raise(fs, history, db_file, c, master_index, rg,
                                            "getsize")
                                \/ /\ io = "faulty"
                                   /\ \E db2 \in FailedSaves(db_file) :
                                        Raise(fs, r.history, db2, c, idx2, rg,
                                              "save_history")
                    ELSE IF ~app.available
                    THEN /\ EntryDone(fs, mark_failed(history, e.detail_url, "No daemon",
                                                      e.lbry_url, clk),
                                      c, master_index, TRUE, "failed", rg)
                         /\ UNCHANGED <<plan, acqVars>>
                    ELSE \* download_path = self.lbry.get_file(lbry_url)
                         /\ pc' = "get_file"
                         /\ plan' \in {"dead", "good"}
                         /\ attempt' = 0
                         /\ wd' = NewWait
                         /\ ret' = NoPath
                         /\ gh' = NewObs
                         /\ filesystem_cache' = c
                         /\ rg' = [rg EXCEPT !.gets = @ \cup {e.lbry_url},
                                             !.fault = "none"]
                         /\ UNCHANGED <<fs, history, db_file, clk, idxVars, app>>

\* the calls of process_entry's try block that may raise: os.remove of the
\* file at the destination; shutil.move and then shutil.copy2; shutil.move
\* and then, after the copy, os.remove of the download (passed over)
OrganizeFaults == {"none", "remove", "move and copy", "unlink"}

\* lines 1272-1285 of process_entry: the files they leave, and whether an
\* exception reaches the handler of the try block
organize(f, download_path, final_path, fault) ==
    LET f1 == [f EXCEPT ![final_path] = NoFile]
    IN  IF download_path = final_path THEN [fs |-> f, raised |-> FALSE]
        ELSE IF fault = "remove" /\ exists(f, final_path)
        THEN [fs |-> f, raised |-> TRUE]
        ELSE IF fault = "move and copy" THEN [fs |-> f1, raised |-> TRUE]
        ELSE IF fault = "unlink"
        THEN [fs |-> [f1 EXCEPT ![final_path] = f[download_path]], raised |-> FALSE]
        ELSE [fs |-> [f1 EXCEPT ![final_path] = f[download_path],
                                ![download_path] = NoFile],
              raised |-> FALSE]

\* process_entry from the return of get_file to its own return
process_entry_finish ==
    /\ pc = "gf_return"
    /\ UNCHANGED <<envVars, acqVars, obs, catalog>>
    /\ LET e == CurrentEntry
           download_path == ret
       IN  IF download_path = NoPath
           THEN EntryDone(fs, mark_failed(history, e.detail_url, "Download failed",
                                          e.lbry_url, clk),
                          filesystem_cache, master_index, TRUE, "failed", rg)
           ELSE \E content \in Contents :
                LET v == verify_file(fs, download_path, content)
                    filename == basename(download_path)
                    final_path == join(get_folder_path(e), filename)
                    g == [rg EXCEPT !.verify = "ok"]
                IN
                IF ~v.ok
                THEN EntryDone(fs, mark_failed(history, e.detail_url,
                                               verification_reason(v.message),
                                               e.lbry_url, clk),
                               filesystem_cache, master_index, TRUE, "failed",
                               [rg EXCEPT !.verify = "rejected"])
                ELSE
                \/ \* os.makedirs(folder_path, exist_ok=True) raises
                   /\ io = "faulty"
                   /\ Raise(fs, history, db_file, filesystem_cache, master_index, g,
                            "makedirs")
                \/ \E fault \in IF io = "faulty" THEN OrganizeFaults ELSE {"none"} :
                    LET o == organize(fs, download_path, final_path, fault)
                        gf == [g EXCEPT !.fault = fault]
                        file_size == getsize(o.fs, final_path)
                        idx2 == add_to_index(master_index, filename, final_path,
                                             e.lbry_url, e.detail_url, file_size)
                        r == mark_downloaded(history, filesystem_cache, o.fs,
                                             e.detail_url, final_path, TRUE, file_size,
                                             clk)
                    IN  IF o.raised
                        THEN EntryDone(o.fs, mark_failed(history, e.detail_url,
                                                         "Organize error", e.lbry_url, clk),
                                       filesystem_cache, master_index, TRUE, "failed", gf)
                        ELSE
                        \/ Returned(o.fs, r.history, r.cache, idx2, TRUE, "success",
                                    [gf EXCEPT !.ok = @ \cup {e.detail_url},
                                               !.succ[e.lbry_url] =
                                                   [run |-> rg.run, name |-> filename]])
                        \/ \* save_history raises in mark_downloaded: the handler
                           \* of the try block calls mark_failed
                           /\ io = "faulty"
                           /\ EntryDone(o.fs, mark_failed(r.history, e.detail_url,
                                                          "Organize error", e.lbry_url,
                                                          clk),
                                        filesystem_cache, idx2, TRUE, "failed",
                                        [gf EXCEPT !.fault = "save_history"])

(***************************************************************************)
(* The user, between two runs.                                             *)
(***************************************************************************)
\* a file of the tree is moved to another directory of the tree
user_moves_file ==
    /\ pc = "done"
    /\ rg.run > 0 /\ ~rg.touched
    /\ \E p \in TreePaths, d \in TreeDirs :
        /\ exists(fs, p) /\ d # p.dir /\ ~exists(fs, Path(d, p.name))
        /\ fs' = [fs EXCEPT ![Path(d, p.name)] = fs[p], ![p] = NoFile]
    /\ rg' = [rg EXCEPT !.touched = TRUE]
    /\ UNCHANGED <<pc, envVars, acqVars, trkVars, idxVars, obs, catalog, app>>

\* the index file is replaced by a copy that lacks one of its rows
index_partial ==
    /\ pc = "done"
    /\ rg.run > 0 /\ ~rg.touched
    /\ index_file.present
    /\ \E k \in DOMAIN index_file.rows :
        index_file' = [index_file EXCEPT !.rows =
                          [i \in 1..(Len(@) - 1) |-> IF i < k THEN @[i] ELSE @[i + 1]]]
    /\ rg' = [rg EXCEPT !.touched = TRUE]
    /\ UNCHANGED <<pc, fs, envVars, acqVars, trkVars, master_index, obs, catalog, app>>

(***************************************************************************)
(* The acquisition machine alone: one get_file call against a daemon that  *)
(* may answer anything.                                                    *)
(***************************************************************************)
DlPath == Path(DirDl, NameABz)

Init ==
    /\ pc = "get_file"
    /\ dpaths = {DlPath}
    /\ lat \in {0, CallTimeout}
    /\ fs \in {[p \in AllPaths |-> IF p = DlPath THEN s ELSE NoFile] : s \in {NoFile, 0, 1}}
    /\ attempt = 0
    /\ wd = NewWait
    /\ ret = NoPath
    /\ gh = NewObs
    /\ plan = "any"
    /\ io = "ok"
    /\ history = NoHistory
    /\ db_file = NoDb
    /\ filesystem_cache = NoCache
    /\ master_index = <<>>
    /\ index_file = NoIndexFile
    /\ clk = 0
    /\ obs = NewTrackerObs
    /\ catalog = <<>>
    /\ app = NewApp
    /\ rg = NewRunObs

Next ==
    \/ get_file_attempt
    \/ wait_for_download

Spec == Init /\ [][Next]_vars

(***************************************************************************)
(* Claims about the acquisition machine (specification Spec).              *)
(***************************************************************************)
\* polls answered so far by the loop that is running, or by the loop that
\* has just returned up to the one it returned on (zero-duration calls)
PollsBefore == wd.elapsed \div PollSleep

\* the uniform answers of the loop were "running" with written_bytes = 0
\* from the first poll on: the stall timer starts at the first poll, and at
\* the second poll otherwise
StallPoll == IF gh.firstw = 0 THEN 17 ELSE 18

\* C4 (as stated): once the daemon has answered 16 consecutive polls, 2
\* time-units apart, with status running and the same writtenBytes, acquire
\* has returned (stalled, or success when the file is there)
C4_StalledAfter16Polls ==
    (lat = 0 /\ gh.uniform /\ PollsBefore >= 16) => pc = "gf_return"

\* C4 (amended): with polls 2 time-units apart that all answer running with
\* one writtenBytes value, the loop goes on through the 16th poll and returns
\* on the 17th poll (value 0) or the 18th (value > 0), when more than 30
\* time-units have passed since the first poll that showed no increase; it
\* returns the reported path if a nonzero-size file exists there and
\* otherwise fails the attempt, which get_file follows with its next attempt
\* or, after the last one, with failure
C4_StallDetection ==
    (lat = 0 /\ gh.uniform) =>
        /\ pc = "wait_for_download" => PollsBefore < StallPoll
        /\ pc # "wait_for_download" =>
            /\ PollsBefore = StallPoll - 1
            /\ gh.how \in {"stalled", "stalled with file"}
            /\ Materialized(fs, gh.lastpath) =>
                   pc = "gf_return" /\ ret = gh.lastpath
            /\ ~Materialized(fs, gh.lastpath) =>
                   /\ gh.how = "stalled"
                   /\ ret = NoPath
                   /\ pc = (IF attempt < max_retries THEN "get_file" ELSE "gf_return")

C4_Witness ==
    /\ lat = 0 /\ gh.uniform /\ gh.how = "stalled" /\ gh.firstw = 1
    /\ PollsBefore = 17 /\ pc = "get_file"

\* C5 (as stated): once get_file has entered the poll loop it issues no
\* further 'get' call
C5_NoInitiateAfterPollLoop == [][gh.entered => gh'.gets = gh.gets]_vars

\* C5 (amended): a poll loop that returns a path ends get_file with that
\* path; a poll loop that fails consumes its attempt: get_file goes on with
\* the next attempt while one is left and returns None, with no further
\* 'get', only when the failed loop belonged to the last attempt
C5_PollLoopFailureConsumesAttempt ==
    [][(pc = "wait_for_download" /\ pc' # "wait_for_download") =>
          \/ pc' = "gf_return" /\ ret' # NoPath /\ attempt' = attempt
          \/ /\ attempt + 1 < max_retries
             /\ pc' = "get_file" /\ attempt' = attempt + 1 /\ ret' = NoPath
          \/ /\ attempt + 1 = max_retries
             /\ pc' = "gf_return" /\ attempt' = max_retries /\ ret' = NoPath
      ]_vars

\* a failed poll loop was followed by further 'get' calls and get_file
\* returned None after the last attempt's loop had failed too
C5_Witness ==
    /\ pc = "gf_return" /\ ret = NoPath /\ gh.entered
    /\ gh.gets = max_retries /\ gh.how = "stalled"

\* C6: get_file issues at most max_retries 'get' calls; while every 'get'
\* has had no result it has slept 5 time-units before each attempt but the
\* first and has issued no 'file_list'; and it returns None after exactly
\* max_retries such calls
C6_InitiateRetryBound ==
    /\ gh.gets <= max_retries
    /\ gh.noresult =>
        /\ ~gh.polled /\ ~gh.entered /\ pc # "wait_for_download"
        /\ gh.slept = (IF gh.gets = 0 THEN 0 ELSE RetrySleep * (gh.gets - 1))
        /\ pc = "get_file" => gh.gets < max_retries
        /\ pc = "gf_return" => gh.gets = max_retries /\ ret = NoPath

C6_Witness == pc = "gf_return" /\ gh.noresult /\ gh.gets = max_retries

\* the branches on which the poll loop ends for lack of status
NoStatusEnds == {"no api response", "no items"}

\* C17: the poll loop ends for lack of status only after more than 60
\* time-units without status in total: the first poll that goes unanswered
\* (or lists no item) after more than 60 time-units in which every poll was
\* answered with status running does not end the loop
C17_NoStatusOnlyAfterSilence ==
    [][(pc = "wait_for_download" /\ gh.uniform /\ wd.elapsed > NoStatusLimit)
          => gh'.how \notin NoStatusEnds]_vars

\* the file the last answer to 'get' pointed to, and whether it is there and
\* not empty once the call has returned
GotPath == gh'.got.download_path
GotFile == GotPath # NoPath /\ fs'[GotPath] # NoFile /\ fs'[GotPath] > 0

\* C20: when 'get' reports completed, finished or stopped with a path at
\* which a non-empty file exists, get_file returns that path from this very
\* attempt: no 'file_list' call and no further 'get' call follows
C20_ReadyAtInitiateReturnsAtOnce ==
    [][(pc = "get_file" /\ gh'.got # NoGot /\ GotFile) =>
          /\ pc' = "gf_return"
          /\ ret' = GotPath
          /\ gh'.gets = gh.gets + 1
          /\ gh'.polled = gh.polled /\ gh'.entered = gh.entered
          /\ wd' = wd /\ attempt' = attempt]_vars

\* get_file has returned the path of a first 'get' that reported finished,
\* without having entered the poll loop
C20_Witness ==
    /\ pc = "gf_return"
    /\ gh.got.status = "finished"
    /\ ret = gh.got.download_path /\ ret # NoPath
    /\ gh.gets = 1 /\ ~gh.entered /\ ~gh.polled

\* the last answer to 'get' had a result that is neither running nor
\* completed, finished or stopped with a non-empty file at its path
OtherOutcome ==
    /\ gh'.status \notin {"", "running"}
    /\ ~(gh'.status \in {"completed", "finished", "stopped"} /\ GotFile)

\* C21: an answer to 'get' that is neither running nor completed, finished
\* or stopped with a non-empty file consumes exactly one attempt: the poll
\* loop is not entered, one 'get' was issued, and get_file goes on to its
\* next attempt or, after the last one, returns failure
C21_OtherOutcomeConsumesOneAttempt ==
    [][(pc = "get_file" /\ OtherOutcome) =>
          /\ attempt' = attempt + 1
          /\ gh'.gets = gh.gets + 1
          /\ gh'.entered = gh.entered /\ gh'.polled = gh.polled /\ wd' = wd
          /\ IF attempt + 1 < max_retries
             THEN pc' = "get_file" /\ ret' = ret
             ELSE pc' = "gf_return" /\ ret' = NoPath]_vars

\* get_file has returned failure after max_retries attempts, the last of
\* them answered with an unknown status, the backoff slept before the
\* second and the third, and the poll loop never entered
C21_Witness ==
    /\ pc = "gf_return" /\ ret = NoPath
    /\ gh.status = "unknown"
    /\ gh.gets = max_retries /\ attempt = max_retries
    /\ gh.slept = RetrySleep * (max_retries - 1)
    /\ ~gh.entered /\ ~gh.noresult

\* C30: whenever get_file returns a path, from the answer to 'get', from a
\* completed or stopped poll or from the stall check, a file of size greater
\* than zero exists at that path when it returns
C30_SuccessNamesMaterializedFile ==
    (pc = "gf_return" /\ ret # NoPath) => Materialized(fs, ret)

\* the path the loop last stored in last_download_path, the poll that
\* detects the stall included
LastReportedPath ==
    IF gh'.lastpath # NoPath THEN gh'.lastpath ELSE wd.last_download_path

\* C18: when the loop detects a stall, it returns the most recent path any
\* poll of the loop reported if a non-empty file exists there, also when the
\* poll that detects the stall carries no path, and fails otherwise
C18_StallChecksLastReportedPath ==
    [][(pc = "wait_for_download" /\ gh'.how \in {"stalled", "stalled with file"}) =>
          IF Materialized(fs', LastReportedPath)
          THEN pc' = "gf_return" /\ ret' = LastReportedPath
          ELSE ret' = NoPath /\ attempt' = attempt + 1]_vars

(***************************************************************************)
(* The poll loop against a daemon that is transferring, its byte counts    *)
(* observed.                                                               *)
(***************************************************************************)
InitPoll ==
    /\ pc = "get_file"
    /\ dpaths = {DlPath}
    /\ lat \in {0, CallTimeout}
    /\ plan = "busy"
    /\ io = "ok"
    /\ fs \in {[p \in AllPaths |-> IF p = DlPath THEN s ELSE NoFile] : s \in {NoFile, 1}}
    /\ attempt = 0
    /\ wd = NewWait
    /\ ret = NoPath
    /\ gh = NewObs
    /\ history = NoHistory
    /\ db_file = NoDb
    /\ filesystem_cache = NoCache
    /\ master_index = <<>>
    /\ index_file = NoIndexFile
    /\ clk = 0
    /\ obs = NewPollObs
    /\ catalog = <<>>
    /\ app = NewApp
    /\ rg = NewRunObs

SpecPoll == InitPoll /\ [][Next]_vars

\* C19: a poll that reports a written_bytes greater than the poll before it
\* resets the stall timer and does not end the loop as stalled, also when
\* the count had gone down before and has not passed its earlier maximum
C19_ProgressResetsStallTimer ==
    [][(/\ pc = "wait_for_download" /\ wd.elapsed > 0
        /\ obs.bytes /\ obs'.bytes
        /\ obs'.written_bytes > obs.written_bytes)
          => /\ gh'.how \notin {"stalled", "stalled with file"}
             /\ wd'.stall_start_time = NoTime]_vars

(***************************************************************************)
(* The poll loop against a daemon that is slow to answer, with the         *)
(* observer of the increases.                                              *)
(***************************************************************************)
InitSlow ==
    /\ pc = "get_file"
    /\ dpaths = {Path(DirDl, NameABz)}
    /\ lat \in {0, CallTimeout}
    /\ plan = "slow"
    /\ io = "ok"
    /\ fs \in {[p \in AllPaths |-> IF p = Path(DirDl, NameABz) THEN s ELSE NoFile] :
                  s \in {NoFile, 1}}
    /\ attempt = 0
    /\ wd = NewWait
    /\ ret = NoPath
    /\ gh = NewObs
    /\ history = NoHistory
    /\ db_file = NoDb
    /\ filesystem_cache = NoCache
    /\ master_index = <<>>
    /\ index_file = NoIndexFile
    /\ clk = 0
    /\ obs = NewRiseObs
    /\ catalog = <<>>
    /\ app = NewApp
    /\ rg = NewRunObs

SpecSlow == InitSlow /\ [][get_file_attempt \/ wait_for_download]_vars

\* the loop returns through its stall branch in this step
StallReturn == pc = "wait_for_download" /\ gh'.how \in {"stalled", "stalled with file"}

\* C36: the poll loop returns through the stall branch only when at least 30
\* time-units have passed since the last poll that reported more
\* written_bytes than the report before it (since the first poll, when none
\* did), whatever the daemon answers, unanswered polls and empty item lists
\* included
C36_StallNeverEarly ==
    [][StallReturn => (wd.elapsed + lat) - obs.rose >= stall_threshold]_vars

(***************************************************************************)
(* The poll loop against a daemon that reports the transfer as done while  *)
(* the file may or may not be there, its statuses observed.                *)
(***************************************************************************)
InitDone ==
    /\ pc = "get_file"
    /\ dpaths = {DlPath}
    /\ lat \in {0, CallTimeout}
    /\ plan = "done"
    /\ io = "ok"
    /\ fs \in {[p \in AllPaths |-> IF p = DlPath THEN s ELSE NoFile] : s \in {NoFile, 0, 1}}
    /\ attempt = 0
    /\ wd = NewWait
    /\ ret = NoPath
    /\ gh = NewObs
    /\ history = NoHistory
    /\ db_file = NoDb
    /\ filesystem_cache = NoCache
    /\ master_index = <<>>
    /\ index_file = NoIndexFile
    /\ clk = 0
    /\ obs = NewStatusObs
    /\ catalog = <<>>
    /\ app = NewApp
    /\ rg = NewRunObs

SpecDone == InitDone /\ [][Next]_vars

\* C22: a poll that reports completed or finished returns the reported path
\* when a non-empty file exists there, and otherwise keeps the loop polling,
\* whether or not written_bytes went up in that poll
C22_CompletedPollReturnsOrKeepsPolling ==
    [][(pc = "wait_for_download" /\ obs'.status \in {"completed", "finished"}) =>
          IF Materialized(fs', obs'.download_path)
          THEN pc' = "gf_return" /\ ret' = obs'.download_path
          ELSE pc' = "wait_for_download" /\ gh'.how = "polling"]_vars

(***************************************************************************)
(* The poll loop without a bound on time, against a daemon whose           *)
(* written_bytes never goes up and whose file never appears. get_file is   *)
(* the only thread of control and every call of the daemon returns within  *)
(* its timeout, so each step that is enabled is taken.                     *)
(***************************************************************************)
InitIdle ==
    /\ pc = "get_file"
    /\ dpaths = {DlPath}
    /\ lat \in {0, CallTimeout}
    /\ plan = "idle"
    /\ io = "ok"
    /\ fs = [p \in AllPaths |-> NoFile]
    /\ attempt = 0
    /\ wd = NewWait
    /\ ret = NoPath
    /\ gh = NewObs
    /\ history = NoHistory
    /\ db_file = NoDb
    /\ filesystem_cache = NoCache
    /\ master_index = <<>>
    /\ index_file = NoIndexFile
    /\ clk = 0
    /\ obs = NewStatusObs
    /\ catalog = <<>>
    /\ app = NewApp
    /\ rg = NewRunObs

SpecIdle ==
    InitIdle /\ [][Next]_vars
    /\ WF_vars(get_file_attempt) /\ WF_vars(wait_for_download)

\* C23: once entered, the poll loop returns in every execution in which
\* written_bytes never goes up or the daemon does not answer, also when the
\* daemon keeps answering running without byte counts or keeps reporting
\* completed for a file that never appears
C23_PollLoopReturns ==
    (pc = "wait_for_download") ~> (pc # "wait_for_download")

(***************************************************************************)
(* The ledger machine: any sequence of at most MaxWrites mark_downloaded   *)
(* and mark_failed calls on a tracker that starts with an empty ledger.    *)
(***************************************************************************)
Cat1ABz == Path(DirCat1, NameABz)
Cat2ABz == Path(DirCat2, NameABz)

InitLedger ==
    /\ pc = "ledger"
    /\ dpaths = {DlPath}
    /\ lat = 0
    /\ plan = "any"
    /\ io = "ok"
    /\ fs \in {[p \in AllPaths |-> IF p = Cat1ABz THEN s ELSE NoFile] : s \in {NoFile, SizeNear}}
    /\ attempt = 0
    /\ wd = NewWait
    /\ ret = NoPath
    /\ gh = NewObs
    /\ history = NoHistory
    /\ db_file = NoDb
    /\ filesystem_cache \in {NoCache} \cup {build_filesystem_cache(fs, o) : o \in WalkOrders}
    /\ master_index = <<>>
    /\ index_file = NoIndexFile
    /\ clk = 0
    /\ obs = NewTrackerObs
    /\ catalog = <<>>
    /\ app = NewApp
    /\ rg = NewRunObs

NextLedger ==
    \/ tracker_mark_downloaded
    \/ tracker_mark_failed

SpecLedger == InitLedger /\ [][NextLedger]_vars

SuccessFields ==
    {"detail_url", "filepath", "downloaded_at", "file_exists", "verified", "file_size"}
FailedFields == {"detail_url", "lbry_url", "status", "reason", "failed_at"}
Written == {d \in DetailUrls : obs.written[d].kind # "none"}

\* C3: after any sequence of mark_downloaded and mark_failed calls the ledger
\* holds exactly one entry per written detailReference, under the key
\* hash(detailReference), and that entry is the record of the last call for
\* it: its fields are those of that call alone, with that call's values
C3_LedgerUpsert ==
    /\ DOMAIN history = {get_entry_id(d) : d \in Written}
    /\ Cardinality(DOMAIN history) = Cardinality(Written)
    /\ \A d \in Written :
        LET e == history[get_entry_id(d)]
            w == obs.written[d]
        IN  IF w.kind = "downloaded"
            THEN /\ DOMAIN e = SuccessFields
                 /\ e.detail_url = d
                 /\ e.filepath = w.filepath
                 /\ e.verified = w.verified
                 /\ e.file_size = w.file_size
                 /\ e.file_exists = w.file_exists
                 /\ e.downloaded_at = w.now
            ELSE /\ DOMAIN e = FailedFields
                 /\ e.detail_url = d
                 /\ e.status = "failed"
                 /\ e.reason = w.reason
                 /\ e.lbry_url = w.lbry_url
                 /\ e.failed_at = w.now

\* a failure written over a success while the other detailReference has an
\* entry of its own
C3_Witness ==
    /\ obs.written["d1"].kind = "failed"
    /\ obs.written["d1"].before = "downloaded"
    /\ obs.written["d2"].kind = "downloaded"

(***************************************************************************)
(* The dedup machine: is_downloaded and file_exists_in_cache applied to a  *)
(* ledger, an index and a tree drawn from small sets.                      *)
(***************************************************************************)
\* index rows for LbryA: in the daemon's directory (outside the tree), in
\* the tree, and with an empty Location
DedupRows ==
    {new_entry(NameABz, p, LbryA, "d1", 0) : p \in {DlPath, Cat1ABz, NoPath}}
DedupIndexes ==
    {<<>>} \cup {<<r>> : r \in DedupRows} \cup {<<r, q>> : r, q \in DedupRows}

\* ledgers as the tracker writes them
DedupHistories ==
    {NoHistory, mark_failed(NoHistory, "d1", "Download failed", LbryA, 0)} \cup
    {Put(NoHistory, get_entry_id("d1"),
         success_entry([q \in AllPaths |-> SizeNear], "d1", p, TRUE, SizeNear, 0)) :
     p \in {DlPath, Cat1ABz}}

DedupFiles ==
    {[p \in AllPaths |-> IF p = DlPath THEN a ELSE IF p = Cat1ABz THEN b
                          ELSE IF p = Cat2ABz THEN c ELSE NoFile] :
     a \in {NoFile, SizeNear}, b \in {NoFile, SizeNear, SizeFar},
     c \in {NoFile, SizeNear}}

InitDedup ==
    /\ pc = "dedup"
    /\ dpaths = {DlPath}
    /\ lat = 0
    /\ plan = "any"
    /\ io = "ok"
    /\ fs \in DedupFiles
    /\ attempt = 0
    /\ wd = NewWait
    /\ ret = NoPath
    /\ gh = NewObs
    /\ history \in DedupHistories
    /\ db_file = save_history(history)
    /\ filesystem_cache = NoCache
    /\ master_index \in DedupIndexes
    /\ index_file = NoIndexFile
    /\ clk = 1
    /\ obs = NewTrackerObs
    /\ catalog = <<>>
    /\ app = NewApp
    /\ rg = NewRunObs

NextDedup ==
    \/ tracker_is_downloaded
    \/ tracker_file_exists_in_cache

SpecDedup == InitDedup /\ [][NextDedup]_vars

\* the index rows whose locator is the queried one
Matching == {i \in DOMAIN master_index : master_index[i].lbry_url = obs.lbry_url}
\* the row's recorded location exists on disk, outside / inside the tree
ExistsOutside(i) ==
    LET loc == master_index[i].location
    IN  loc # NoPath /\ fs[loc] # NoFile /\ loc.dir = DirDl
ExistsInside(i) ==
    LET loc == master_index[i].location
    IN  loc # NoPath /\ fs[loc] # NoFile /\ loc.dir # DirDl
LedgerEntry == Get(history, get_entry_id(obs.detail_url), [status |-> "absent"])
LedgerFailed == Get(LedgerEntry, "status", "") = "failed"

\* C8 (as stated): whenever some IndexedRecord has the queried locator and a
\* location that exists on disk outside the managed tree, isAlreadyAcquired
\* returns false, whatever the ledger holds
C8_AnyOutsideRecordRejects ==
    (obs.call = "is_downloaded" /\ \E i \in Matching : ExistsOutside(i))
        => ~obs.acquired

\* C8 (amended): whenever the first IndexedRecord with the queried (non-empty)
\* locator has a location that exists on disk outside the managed tree,
\* isAlreadyAcquired returns false, whatever the ledger holds
C8_FirstOutsideRecordRejects ==
    (/\ obs.call = "is_downloaded"
     /\ obs.lbry_url # NoUrl
     /\ \E i \in Matching : ExistsOutside(i) /\ \A j \in Matching : i <= j)
        => ~obs.acquired

\* the first matching record is outside the tree, a later one and the
\* ledger's filepath are inside it and exist, and the answer is false
C8_Witness ==
    /\ obs.call = "is_downloaded"
    /\ ~obs.acquired
    /\ Len(master_index) = 2
    /\ ExistsOutside(1) /\ ExistsInside(2)
    /\ Get(LedgerEntry, "filepath", NoPath) = Cat1ABz

\* C9 (as stated): a detailReference whose ledger entry is failed is never
\* reported acquired, for every locator and every index
C9_FailedNeverAcquired ==
    (obs.call = "is_downloaded" /\ LedgerFailed) => ~obs.acquired

\* C9 (amended): a detailReference whose ledger entry is failed is reported
\* acquired only by the index rule, that is, only when the locator is
\* non-empty and an IndexedRecord with that locator has a location that
\* exists inside the managed tree; otherwise isAlreadyAcquired returns false
C9_FailedAcquiredOnlyByIndex ==
    (/\ obs.call = "is_downloaded"
     /\ LedgerFailed
     /\ ~(obs.lbry_url # NoUrl /\ \E i \in Matching : ExistsInside(i)))
        => ~obs.acquired

\* a failed entry, a file in the tree that no usable index row points to, and
\* the answer false
C9_Witness ==
    /\ obs.call = "is_downloaded"
    /\ LedgerFailed
    /\ fs[Cat1ABz] # NoFile
    /\ master_index # <<>>
    /\ \A i \in Matching : ~ExistsInside(i)
    /\ ~obs.acquired

\* the ledger entry of the queried detail_url is success-shaped and its
\* stored path exists inside the managed tree
LedgerInTree ==
    LET stored == Get(LedgerEntry, "filepath", NoPath)
    IN  /\ Get(LedgerEntry, "status", "") \notin {"failed", "absent"}
        /\ stored # NoPath /\ exists(fs, stored) /\ InsideTree(stored)

\* C24: whenever no IndexedRecord has the queried locator together with a
\* location that exists inside the managed tree, also when a record with the
\* locator exists but its location is missing on disk, the ledger decides:
\* a success-shaped entry whose stored path exists inside the tree makes
\* isAlreadyAcquired return true
C24_LedgerDecidesWithoutUsableRecord ==
    (/\ obs.call = "is_downloaded"
     /\ \A i \in Matching : ~ExistsInside(i)
     /\ LedgerInTree)
        => obs.acquired

(***************************************************************************)
(* The tracker machine: a DownloadTracker as its constructor leaves it,    *)
(* and any sequence of calls of its four operations.                       *)
(***************************************************************************)
TrackerFiles ==
    {[p \in AllPaths |-> IF p = Cat2ABz THEN a
                          ELSE IF p = ReadmePath THEN b ELSE NoFile] :
     a \in {NoFile, SizeFar}, b \in {SizeNear}}

InitTracker ==
    /\ pc = "tracker"
    /\ dpaths = {DlPath}
    /\ lat = 0
    /\ plan = "any"
    /\ io = "ok"
    /\ fs \in TrackerFiles
    /\ attempt = 0
    /\ wd = NewWait
    /\ ret = NoPath
    /\ gh = NewObs
    /\ db_file = NoDb
    /\ history = load_history(db_file)
    /\ filesystem_cache = NoCache
    /\ master_index = <<>>
    /\ index_file = NoIndexFile
    /\ clk = 1
    /\ obs = NewTrackerObs
    /\ catalog = <<>>
    /\ app = NewApp
    /\ rg = NewRunObs

NextTracker ==
    \/ tracker_mark_downloaded
    \/ tracker_mark_failed
    \/ tracker_is_downloaded
    \/ tracker_file_exists_in_cache

SpecTracker == InitTracker /\ [][NextTracker]_vars

\* the step is a call of file_exists_in_cache
LookupStep ==
    /\ obs'.call = "file_exists_in_cache"
    /\ clk' = clk
    /\ <<obs, filesystem_cache>>' # <<obs, filesystem_cache>>

\* C28: once the cache is built, a file_exists_in_cache for the bare filename
\* of a path that mark_downloaded was called with since then returns a path
\* and scans nothing; on an unbuilt cache mark_downloaded leaves it unbuilt
C28_MarkDownloadedFeedsCache ==
    [][/\ (LookupStep /\ obs'.filename \in {basename(p) : p \in obs.added}) =>
            /\ obs'.found # NoPath
            /\ obs'.scans = obs.scans
            /\ filesystem_cache' = filesystem_cache
       /\ (clk' # clk /\ ~filesystem_cache.built) =>
            /\ filesystem_cache' = NoCache
            /\ obs'.added = {}]_vars

\* a lookup has returned a path that mark_downloaded was called with after
\* the one scan, for a file that is not on disk
C28_Witness ==
    /\ obs.call = "file_exists_in_cache"
    /\ obs.found \in obs.added
    /\ ~exists(fs, obs.found)
    /\ obs.scans = 1

\* C29: the tree is scanned at most once, as part of the first call of
\* file_exists_in_cache and of no other operation (the cache is unbuilt
\* until then), and the scan records every file of the tree but those with
\* a reserved filename
C29_LazySingleScan ==
    [][/\ obs.scans <= 1 /\ obs'.scans <= 1
       /\ filesystem_cache.built <=> obs.scans = 1
       /\ obs'.scans # obs.scans =>
            /\ LookupStep /\ ~obs.looked
            /\ {filesystem_cache'.entries[i].path : i \in DOMAIN filesystem_cache'.entries}
                   = {p \in TreePaths : exists(fs, p) /\ basename(p) \notin Reserved}
       /\ ~LookupStep => filesystem_cache'.built = filesystem_cache.built]_vars

\* the one scan has passed over a README.md of the tree, and is_downloaded,
\* mark_downloaded and another file_exists_in_cache have been called since
C29_Witness ==
    /\ obs.scans = 1 /\ obs.call = "is_downloaded"
    /\ exists(fs, ReadmePath)
    /\ obs.added # {}
    /\ \A i \in DOMAIN filesystem_cache.entries :
          filesystem_cache.entries[i].path # ReadmePath

\* the cached candidates with exactly the searched filename, in cache order
Candidates ==
    SelectSeq(filesystem_cache.entries, LAMBDA m : m.path.name = obs.filename)
Near(m) ==
    LET d == IF m.size >= obs.expected_size THEN m.size - obs.expected_size
             ELSE obs.expected_size - m.size
    IN  100 * d < obs.expected_size

\* C10: among the cached candidates with exactly the searched filename, when
\* expectedSize > 0 and some candidate is within 1% of it, the path returned
\* is that of a candidate within 1%, wherever it stands in the cache; when
\* expectedSize = 0 the first candidate is returned
C10_SizeTolerance ==
    (obs.call = "file_exists_in_cache" /\ Candidates # <<>>) =>
        /\ (obs.expected_size > 0 /\ \E i \in DOMAIN Candidates : Near(Candidates[i]))
              => \E i \in DOMAIN Candidates :
                    Near(Candidates[i]) /\ obs.found = Candidates[i].path
        /\ obs.expected_size = 0 => obs.found = Candidates[1].path

\* two candidates, the first outside the tolerance, the second within it and
\* returned
C10_Witness ==
    /\ obs.call = "file_exists_in_cache"
    /\ obs.expected_size > 0
    /\ Len(Candidates) = 2
    /\ ~Near(Candidates[1]) /\ Near(Candidates[2])
    /\ obs.found = Candidates[2].path

(***************************************************************************)
(* The reconciliation machine: reconcile_moved_files applied to an index   *)
(* and a tree drawn from small sets.                                       *)
(***************************************************************************)
Cat1Cz == Path(DirCat1, NameCz)

\* index rows as add_to_index writes them: recorded in the daemon's
\* directory, in the tree, or with an empty Location, for a file of no
\* known size or of one MiB
ReconcileRows ==
    {new_entry(basename(p), p, LbryA, "d1", s) :
        p \in {DlPath, Cat1ABz, Cat2ABz, Cat1Cz, NoPath}, s \in {0, MiB}} \cup
    {[new_entry(basename(p), p, LbryA, "d1", 0) EXCEPT !.file_size_mb = Unparsable] :
        p \in {DlPath, Cat1ABz}}
ReconcileIndexes ==
    {<<>>} \cup {<<r>> : r \in ReconcileRows} \cup {<<r, q>> : r, q \in ReconcileRows}

ReconcileFiles ==
    {[p \in AllPaths |-> IF p = DlPath THEN a ELSE IF p = Cat1ABz THEN b
                          ELSE IF p = Cat2ABz THEN c ELSE IF p = Cat1Cz THEN d
                          ELSE NoFile] :
     a \in {NoFile, MiB}, b \in {NoFile, MiB}, c \in {NoFile, MiB, SizeNear},
     d \in {NoFile, MiB}}

\* the index as it was before the last reconciliation
NewReconcileObs == [call |-> "none", before |-> <<>>]

\* IntentBasedOrganizer.reconcile_moved_files, on the index in memory
organizer_reconcile_moved_files ==
    /\ pc = "reconcile"
    /\ \E o \in WalkOrders :
        master_index' = reconcile_moved_files(master_index, fs, o)
    /\ obs' = [call |-> "reconcile_moved_files", before |-> master_index]
    /\ UNCHANGED <<pc, fs, envVars, acqVars, trkVars, index_file, runVars>>

InitReconcile ==
    /\ pc = "reconcile"
    /\ dpaths = {DlPath}
    /\ lat = 0
    /\ plan = "any"
    /\ io = "ok"
    /\ fs \in ReconcileFiles
    /\ attempt = 0
    /\ wd = NewWait
    /\ ret = NoPath
    /\ gh = NewObs
    /\ history = NoHistory
    /\ db_file = NoDb
    /\ filesystem_cache = NoCache
    /\ master_index \in ReconcileIndexes
    /\ index_file = NoIndexFile
    /\ clk = 0
    /\ obs = NewReconcileObs
    /\ catalog = <<>>
    /\ app = NewApp
    /\ rg = NewRunObs

NextReconcile == organizer_reconcile_moved_files

SpecReconcile == InitReconcile /\ [][NextReconcile]_vars

\* the record's file is where the record says, inside the managed tree
RecordedInTree(e) ==
    e.location # NoPath /\ exists(fs, e.location) /\ InsideTree(e.location)
\* some file of the managed tree has the name of the record's file
SameNameInTree(e) ==
    \E p \in TreePaths : exists(fs, p) /\ basename(p) = basename(e.location)

\* C11: reconciliation keeps the number of records and their order, changes
\* nothing but the Location of a record, and leaves untouched every record
\* whose file exists inside the tree and every record for which the tree
\* holds no file of the same name
C11_ReconcileFrame ==
    obs.call = "reconcile_moved_files" =>
        /\ Len(master_index) = Len(obs.before)
        /\ \A i \in DOMAIN obs.before :
            /\ master_index[i] = [obs.before[i] EXCEPT !.location = master_index[i].location]
            /\ RecordedInTree(obs.before[i]) => master_index[i] = obs.before[i]
            /\ ~SameNameInTree(obs.before[i]) => master_index[i] = obs.before[i]

\* a reconciliation of two records: one relocated to the file found in the
\* tree, the other with its file in place and left as it was
C11_Witness ==
    /\ obs.call = "reconcile_moved_files"
    /\ Len(obs.before) = 2
    /\ master_index[1].location # obs.before[1].location
    /\ RecordedInTree(obs.before[2])
    /\ basename(obs.before[2].location) = basename(obs.before[1].location)
    /\ master_index[2] = obs.before[2]

\* the record's file is where the record says, outside the managed tree
RecordedOutside(e) ==
    e.location # NoPath /\ exists(fs, e.location) /\ ~InsideTree(e.location)
\* the record's location is set and no file is there
RecordedMissing(e) == e.location # NoPath /\ ~exists(fs, e.location)
\* p is a file of the managed tree with the name of the record's file
SameNamed(e, p) ==
    InsideTree(p) /\ exists(fs, p) /\ basename(p) = basename(e.location)
\* its size is within 1% of the recorded size
WithinTolerance(e, p) ==
    LET old_size == e.file_size_mb * MiB
        d == IF 100 * getsize(fs, p) >= old_size THEN 100 * getsize(fs, p) - old_size
             ELSE old_size - 100 * getsize(fs, p)
    IN  e.file_size_mb # Unparsable /\ d <= (old_size - 1) \div 100

\* C25: a record whose location exists on disk outside the managed tree is
\* given the location of a same-named file of the tree whose size is within
\* 1% of the recorded size, as a record with a missing location is
C25_OutsideTreeRecordsReconciled ==
    obs.call = "reconcile_moved_files" =>
        \A i \in DOMAIN obs.before :
            (/\ RecordedOutside(obs.before[i])
             /\ \E p \in TreePaths : SameNamed(obs.before[i], p)
                                      /\ WithinTolerance(obs.before[i], p))
                => /\ SameNamed(obs.before[i], master_index[i].location)
                   /\ WithinTolerance(obs.before[i], master_index[i].location)

\* C26: for a record whose location is missing, a same-named file of the
\* tree is taken as the new location when its size is within 1% of the
\* recorded size or the recorded size cannot be parsed; a same-named file
\* outside the tolerance is never taken, a file within it is found in
\* whatever directory it lies, and the record keeps its stale location when
\* no file is taken
C26_MatchAcceptance ==
    obs.call = "reconcile_moved_files" =>
        \A i \in DOMAIN obs.before :
            LET e == obs.before[i]
                new == master_index[i].location
                Accepted(p) ==
                    SameNamed(e, p) /\ (e.file_size_mb = Unparsable \/ WithinTolerance(e, p))
            IN  RecordedMissing(e) =>
                    IF \E p \in TreePaths : Accepted(p)
                    THEN Accepted(new)
                    ELSE master_index[i] = e

\* two reconciled records with missing locations: the first, whose size
\* cannot be parsed, is moved to a same-named file of the tree; the second is
\* moved to a file within the tolerance although the tree holds a same-named
\* file outside it
C26_Witness ==
    /\ obs.call = "reconcile_moved_files"
    /\ Len(obs.before) = 2
    /\ RecordedMissing(obs.before[1]) /\ RecordedMissing(obs.before[2])
    /\ obs.before[1].file_size_mb = Unparsable
    /\ master_index[1].location # obs.before[1].location
    /\ obs.before[2].file_size_mb # Unparsable
    /\ master_index[2].location # obs.before[2].location
    /\ \E p \in TreePaths :
          SameNamed(obs.before[2], p) /\ ~WithinTolerance(obs.before[2], p)

\* C35: when reconciliation changes the Location of a record, the new
\* Location is the path of an existing file inside the tree with the bare
\* filename of the old Location, and reconciliation creates, moves and
\* deletes no file
C35_RelocationTargets ==
    [][pc = "reconcile" =>
          /\ fs' = fs
          /\ \A i \in DOMAIN master_index :
                master_index'[i].location # master_index[i].location =>
                    /\ exists(fs', master_index'[i].location)
                    /\ InsideTree(master_index'[i].location)
                    /\ basename(master_index'[i].location)
                          = basename(master_index[i].location)]_vars

\* a record whose Location named no file was given the path of a same-named
\* file of another directory, while a file of another name is in the tree
C35_Witness ==
    /\ obs.call = "reconcile_moved_files"
    /\ \E i \in DOMAIN master_index, p \in TreePaths :
          /\ master_index[i].location # obs.before[i].location
          /\ master_index[i].location.dir # obs.before[i].location.dir
          /\ exists(fs, p) /\ basename(p) # basename(master_index[i].location)

(***************************************************************************)
(* The verification machine: the verification step of process_entry        *)
(* applied to a path, a tree and file contents drawn from small sets.      *)
(***************************************************************************)
DlAb == Path(DirDl, NameAb)

\* the paths get_file may return, each missing, empty or not empty
VerifyPaths == {DlPath, DlAb, Cat1ABz}
VerifyFiles ==
    {[p \in AllPaths |-> IF p = DlPath THEN a ELSE IF p = DlAb THEN b
                          ELSE IF p = Cat1ABz THEN c ELSE NoFile] :
     a \in {NoFile, 0, 1, SizeNear}, b \in {NoFile, 0, 1, SizeNear},
     c \in {NoFile, 0, 1, SizeNear}}

\* the last call of verify_file and what it returned
NewVerifyObs ==
    [call |-> "none", path |-> NoPath, content |-> "other", ok |-> FALSE, message |-> ""]

\* process_entry: "is_valid, message = self.verifier.verify_file(download_path)"
\* and the branch on "not is_valid"
process_entry_verify ==
    /\ pc = "verify"
    /\ \E p \in VerifyPaths, content \in Contents :
        LET v == verify_file(fs, p, content)
            h == mark_failed(history, E1.detail_url, verification_reason(v.message),
                             E1.lbry_url, clk)
        IN  /\ obs' = [call |-> "verify_file", path |-> p, content |-> content,
                        ok |-> v.ok, message |-> v.message]
            /\ history' = IF v.ok THEN history ELSE h
            /\ db_file' = IF v.ok THEN db_file ELSE save_history(h)
            /\ clk' = IF v.ok THEN clk ELSE clk + 1
    /\ pc' = "verified"
    /\ UNCHANGED <<fs, envVars, acqVars, filesystem_cache, idxVars, runVars>>

InitVerify ==
    /\ pc = "verify"
    /\ dpaths = {DlPath}
    /\ lat = 0
    /\ plan = "any"
    /\ io = "ok"
    /\ fs \in VerifyFiles
    /\ attempt = 0
    /\ wd = NewWait
    /\ ret = NoPath
    /\ gh = NewObs
    /\ history = NoHistory
    /\ db_file = NoDb
    /\ filesystem_cache = NoCache
    /\ master_index = <<>>
    /\ index_file = NoIndexFile
    /\ clk = 0
    /\ obs = NewVerifyObs
    /\ catalog = <<E1>>
    /\ app = NewApp
    /\ rg = NewRunObs

NextVerify == process_entry_verify

SpecVerify == InitVerify /\ [][NextVerify]_vars

\* the verified path holds a file that is not empty
NonEmpty == exists(fs, obs.path) /\ getsize(fs, obs.path) > 0
VerificationReasons == {"Verification: File not found", "Verification: File is empty"}

\* C12: verify_file answers ok = false exactly when the path is missing or
\* the file is empty, whatever the archive scan finds and whatever the file
\* type; a download that is not empty leaves no verification failure in the
\* ledger, a missing or empty one is recorded as a verification failure
C12_VerifyOnlySize ==
    pc = "verified" =>
        /\ obs.ok <=> NonEmpty
        /\ NonEmpty => history = NoHistory /\ db_file = NoDb
        /\ ~NonEmpty =>
              /\ DOMAIN history = {get_entry_id(E1.detail_url)}
              /\ history[get_entry_id(E1.detail_url)].reason \in VerificationReasons

\* a file that is not empty, has the archive extension and fails the archive
\* scan was verified and accepted
C12_Witness ==
    /\ pc = "verified"
    /\ NonEmpty
    /\ obs.content = "corrupt zip"
    /\ splitext_ext(basename(obs.path)) = ZipExt
    /\ obs.ok
    /\ history = NoHistory

(***************************************************************************)
(* The program run MaxRuns times, each run in a fresh process, over one    *)
(* catalog snapshot and a tree that starts empty.                          *)
(***************************************************************************)
InitRun ==
    /\ pc = "done"
    /\ dpaths = {Path(DirDl, DaemonName(u)) : u \in Lbrys}
    /\ lat = 0
    /\ plan = "dead"
    /\ io = "ok"
    /\ fs = [p \in AllPaths |-> NoFile]
    /\ attempt = 0
    /\ wd = NewWait
    /\ ret = NoPath
    /\ gh = NewObs
    /\ history = NoHistory
    /\ db_file = NoDb
    /\ filesystem_cache = NoCache
    /\ master_index = <<>>
    /\ index_file = NoIndexFile
    /\ clk = 0
    /\ obs = NewTrackerObs
    /\ catalog \in Catalogs
    /\ app = NewApp
    /\ rg = NewRunObs

NextRun ==
    \/ construct
    \/ run_begin
    \/ process_entry_begin
    \/ get_file_attempt
    \/ wait_for_download
    \/ process_entry_finish
    \/ user_moves_file
    \/ index_partial

SpecRun == InitRun /\ [][NextRun]_vars

\* the run before the last one recorded the entry as a success
RecordedSuccess(e) == e.detail_url \in rg.okprev
CatalogEntries == {catalog[i] : i \in DOMAIN catalog}
\* a run has ended that began right after the run before it had ended
SecondInRow == pc = "done" /\ rg.run >= 2 /\ rg.inrow

\* C1 (as stated): a run that follows another run on the same catalog and
\* tree makes no daemon call and leaves the ledger and the files of the
\* tree as the run before it left them
C1_SecondRunIdle ==
    SecondInRow => (rg.gets = {} /\ rg.snap = rg.prev)

\* C1 (amended): a run that follows another run on the same catalog and tree
\* makes no daemon call for an item the run before it recorded as success;
\* when that run recorded every catalog item as success, the run makes no
\* daemon call at all and leaves the ledger and the files of the tree as
\* they were
C1_SecondRunSkipsSuccesses ==
    SecondInRow =>
        /\ \A e \in CatalogEntries :
              RecordedSuccess(e) => e.lbry_url \notin rg.gets
        /\ (\A e \in CatalogEntries : RecordedSuccess(e))
              => (rg.gets = {} /\ rg.snap = rg.prev)

\* the second of two runs in a row has ended with the daemon available, over
\* a catalog of two items that the first run had both recorded as success
C1_Witness ==
    /\ SecondInRow
    /\ app.available
    /\ Len(catalog) = 2
    /\ \A e \in CatalogEntries : RecordedSuccess(e)
    /\ \E p \in TreePaths : rg.snap.files[p] # NoFile

\* C2: no 'get' is issued for a locator whose fetch an earlier run recorded
\* as success while the file it fetched is somewhere in the managed tree
C2_AtMostOnceFetch ==
    \A u \in Lbrys :
        ~(/\ pc \in {"get_file", "wait_for_download", "gf_return"}
          /\ CurrentEntry.lbry_url = u
          /\ gh.gets > 0
          /\ rg.succ[u].run > 0 /\ rg.succ[u].run < rg.run
          /\ \E p \in TreePaths : p.name = rg.succ[u].name /\ fs[p] # NoFile)

\* C7: when the catalog has one entry and the daemon answers 'get' with
\* running, then polls with running and growing writtenBytes, then a poll
\* with completed and a path P holding a non-empty file, get_file returns P
\* from that poll, the verifier accepts, and the ledger ends with exactly
\* one entry, under hash(detailReference), that is success-shaped
C7_EndToEndSuccess ==
    (pc = "done" /\ rg.run = 1 /\ Len(catalog) = 1 /\ plan = "good" /\ gh.gets > 0) =>
        LET e == catalog[1]
            P == DaemonPath(e.lbry_url)
            id == get_entry_id(e.detail_url)
        IN  /\ ret = P /\ gh.lastpath = P /\ gh.how = "poll completed"
            /\ gh.gets = 1 /\ gh.polled
            /\ rg.verify = "ok"
            /\ DOMAIN history = {id}
            /\ DOMAIN history[id] = SuccessFields
            /\ history[id].detail_url = e.detail_url
            /\ history[id].filepath = Path(e.folder, P.name)
            /\ history[id].verified
            /\ db_file = save_history(history)

\* the run over a one-entry catalog has ended after such a transfer, with
\* the file in its folder
C7_Witness ==
    /\ pc = "done" /\ rg.run = 1 /\ Len(catalog) = 1
    /\ plan = "good" /\ gh.how = "poll completed"
    /\ app.session_successful = 1
    /\ fs[Path(catalog[1].folder, DaemonPath(catalog[1].lbry_url).name)] # NoFile

\* the ledger entry of the item being processed, after the step
WrittenEntry == Get(history', get_entry_id(CurrentEntry.detail_url), [status |-> "absent"])

\* get_file and wait_for_download leave the ledger, its file, the
\* filesystem cache and the index alone
AcquireOwnsNoState ==
    pc \in {"get_file", "wait_for_download"} =>
        UNCHANGED <<history, db_file, filesystem_cache, master_index, index_file>>

\* C27 (as stated): the ledger changes only when get_file has been called
\* for the item's locator in this run and has returned, and get_file and
\* wait_for_download change neither ledger, filesystem cache nor index
C27_LedgerWritesFollowAcquire ==
    [][/\ history' # history =>
            pc = "gf_return" /\ CurrentEntry.lbry_url \in rg.gets
       /\ AcquireOwnsNoState]_vars

\* C27 (amended): the ledger changes only in process_entry, for the item
\* being processed: after get_file has been called for its locator in this
\* run and has returned, or, without a call of get_file, when the item has
\* no locator (failed, "No LBRY URL"), when the filesystem cache holds a
\* file for the name derived from the locator (success, with the path
\* found), or when the daemon is unavailable (failed, "No daemon"); get_file
\* and wait_for_download change neither ledger, filesystem cache nor index
C27_LedgerWritesInProcessEntry ==
    [][/\ history' # history =>
            /\ \A k \in DOMAIN history' :
                  k # get_entry_id(CurrentEntry.detail_url) =>
                      k \in DOMAIN history /\ history'[k] = history[k]
            /\ \/ pc = "gf_return" /\ CurrentEntry.lbry_url \in rg.gets
               \/ /\ pc = "process_entry"
                  /\ CurrentEntry.lbry_url \notin rg.gets
                  /\ \/ /\ CurrentEntry.lbry_url = NoUrl
                        /\ Get(WrittenEntry, "status", "") = "failed"
                        /\ Get(WrittenEntry, "reason", "") = "No LBRY URL"
                     \/ /\ CurrentEntry.lbry_url # NoUrl
                        /\ Get(WrittenEntry, "status", "") # "failed"
                        /\ \E i \in DOMAIN filesystem_cache'.entries :
                              filesystem_cache'.entries[i].path =
                                  Get(WrittenEntry, "filepath", NoPath)
                     \/ /\ CurrentEntry.lbry_url # NoUrl
                        /\ ~app.available
                        /\ Get(WrittenEntry, "status", "") = "failed"
                        /\ Get(WrittenEntry, "reason", "") = "No daemon"
       /\ AcquireOwnsNoState]_vars

\* a run has recorded a success for a file found in the filesystem cache
\* without a call of get_file, after an earlier run had fetched the item
C27_Witness ==
    /\ pc = "done" /\ rg.run = 2
    /\ rg.gets = {} /\ rg.ok # {}
    /\ rg.snap.history # rg.prev.history

\* C31: a ledger entry is written with verified = true only in a
\* process_entry call in which verify_file was called and accepted the file;
\* the shortcut for a file found by name records no verified = true
C31_VerifiedOnlyAfterVerify ==
    [][(history' # history /\ Get(WrittenEntry, "verified", FALSE)) =>
          pc = "gf_return" /\ rg'.verify = "ok"]_vars

\* the cached files file_exists_in_cache chooses among for a filename: those
\* with exactly that name, else those of the first cached name that is equal
\* to it after normalization
NamedLike(c, name) ==
    LET exact == SelectSeq(c.entries, LAMBDA m : basename(m.path) = name)
        loose == SelectSeq(c.entries, LAMBDA m :
                     normalized_cached(basename(m.path)) = normalized_search(name))
    IN  IF exact # <<>> \/ loose = <<>> THEN exact
        ELSE SelectSeq(c.entries, LAMBDA m : basename(m.path) = basename(loose[1].path))
\* the cache the lookup of this step reads: the one held, or the one the
\* step builds and hands on
CacheRead(o) ==
    IF filesystem_cache.built THEN filesystem_cache ELSE build_filesystem_cache(fs, o)
SizeMismatch(c) ==
    LET e == CurrentEntry
        m == NamedLike(c, expected_filename(e.lbry_url))
    IN  /\ e.size > 0
        /\ m # <<>>
        /\ \A i \in DOMAIN m :
              100 * (IF m[i].size >= e.size THEN m[i].size - e.size
                     ELSE e.size - m[i].size) >= e.size
        /\ exists(fs, m[1].path)

\* C32: for an item with expectedSize > 0 whose filename (exact or
\* normalized) is cached while no cached file of that name is within 1% of
\* expectedSize, the lookup still yields the first cached file of that name:
\* process_entry issues no daemon call and records the item as success with
\* that file's path
C32_SizeMismatchStillDeduplicates ==
    [][(pc = "process_entry" /\ ~CurrentEntry.excluded /\ CurrentEntry.lbry_url # NoUrl)
          => \A o \in WalkOrders :
                (/\ SizeMismatch(CacheRead(o))
                 /\ filesystem_cache'.built
                 /\ SubSeq(filesystem_cache'.entries, 1, Len(CacheRead(o).entries))
                       = CacheRead(o).entries)
                => LET first == NamedLike(CacheRead(o),
                                          expected_filename(CurrentEntry.lbry_url))[1]
                   IN  /\ pc' # "get_file"
                       /\ rg'.gets = rg.gets
                       /\ Get(WrittenEntry, "status", "") = ""
                       /\ Get(WrittenEntry, "filepath", NoPath) = first.path
                       /\ app'.session_successful = app.session_successful + 1]_vars

\* an item of stated size was recorded as success from a cached file whose
\* size is far from the stated one, with no 'get' issued in the run
C32_Witness ==
    /\ pc = "done" /\ rg.run = 2 /\ rg.gets = {}
    /\ catalog = <<E4>>
    /\ app.session_successful = 1
    /\ LET h == Get(history, get_entry_id(E4.detail_url), [status |-> "absent"])
       IN  /\ Get(h, "status", "") = ""
           /\ exists(fs, Get(h, "filepath", NoPath))
           /\ ~within_tolerance(getsize(fs, h.filepath), E4.size)

(***************************************************************************)
(* The same program with a daemon that saves into a directory of           *)
(* output_dir that is no category folder.                                  *)
(***************************************************************************)
InitRunTree ==
    /\ pc = "done"
    /\ dpaths = {Path(DirInbox, DaemonName(u)) : u \in Lbrys}
    /\ lat = 0
    /\ plan = "dead"
    /\ io = "ok"
    /\ fs = [p \in AllPaths |-> NoFile]
    /\ attempt = 0
    /\ wd = NewWait
    /\ ret = NoPath
    /\ gh = NewObs
    /\ history = NoHistory
    /\ db_file = NoDb
    /\ filesystem_cache = NoCache
    /\ master_index = <<>>
    /\ index_file = NoIndexFile
    /\ clk = 0
    /\ obs = NewTrackerObs
    /\ catalog \in Catalogs
    /\ app = NewApp
    /\ rg = NewRunObs

SpecRunTree == InitRunTree /\ [][NextRun]_vars

\* C33: while a run processes its items, and when it has processed the
\* last one, every (path, size) pair of the FilesystemIndex names a file
\* that exists on disk at that path
C33_CachedPathsExist ==
    (/\ \/ pc \in {"process_entry", "get_file", "wait_for_download", "gf_return"}
        \/ pc = "done" /\ rg.run > 0 /\ ~rg.touched
     /\ filesystem_cache.built)
        => \A i \in DOMAIN filesystem_cache.entries :
              exists(fs, filesystem_cache.entries[i].path)

\* C37: a process_entry call that returns adds one to exactly one of the
\* three session counters and leaves the other two as they were, so their
\* sum is the number of items processed so far in the run; and the call
\* returns a path exactly when the counter of successes is the one
C37_OneCounterPerItem ==
    [][(pc \in {"process_entry", "gf_return"} /\ app'.i = app.i + 1) =>
          LET s == app'.session_successful - app.session_successful
              f == app'.session_failed - app.session_failed
              k == app'.session_skipped_by_filter - app.session_skipped_by_filter
          IN  /\ {s, f, k} \subseteq {0, 1}
              /\ s + f + k = 1
              /\ app'.session_successful + app'.session_failed
                    + app'.session_skipped_by_filter = app'.i
              /\ s = 1 <=> CurrentEntry.detail_url \in rg'.ok]_vars

\* a run of two items has ended with one item filtered and one failed
C37_Witness ==
    /\ pc = "done" /\ rg.run > 0
    /\ app.i = 2
    /\ app.session_skipped_by_filter = 1
    /\ app.session_failed = 1
    /\ app.session_successful = 0

\* C38: processing an item with an excluded tag leaves the ledger, its
\* file, the index and the FilesystemIndex as they were and issues no daemon
\* call; processing an item without locator records it as failed with the
\* reason "No LBRY URL", issues no daemon call and scans no directory
C38_FilteredAndUnlocatedItems ==
    [][pc = "process_entry" =>
          /\ CurrentEntry.excluded =>
                /\ history' = history /\ db_file' = db_file
                /\ master_index' = master_index
                /\ filesystem_cache' = filesystem_cache
                /\ fs' = fs
                /\ rg'.gets = rg.gets /\ pc' # "get_file"
          /\ (~CurrentEntry.excluded /\ CurrentEntry.lbry_url = NoUrl) =>
                /\ Get(WrittenEntry, "status", "") = "failed"
                /\ Get(WrittenEntry, "reason", "") = "No LBRY URL"
                /\ filesystem_cache' = filesystem_cache
                /\ master_index' = master_index
                /\ fs' = fs
                /\ rg'.gets = rg.gets /\ pc' # "get_file"]_vars

\* a run over a filtered item and an item without locator has ended: no
\* entry for the first, a failed entry for the second, no 'get', no scan
C38_Witness ==
    /\ pc = "done" /\ rg.run > 0
    /\ catalog = <<E5, E6>>
    /\ app.session_skipped_by_filter = 1 /\ app.session_failed = 1
    /\ get_entry_id(E5.detail_url) \notin DOMAIN history
    /\ get_entry_id(E6.detail_url) \in DOMAIN history
    /\ rg.gets = {}
    /\ ~filesystem_cache.built

(***************************************************************************)
(* The index machine: the add_to_index calls of process_entry, on an index *)
(* that starts empty.                                                      *)
(***************************************************************************)
MaxCalls == 3
\* "lbry://@c/A_b#3": another locator from which the filename "A_b" derives
LbryC == Url(<<"@", "c">>, <<"/">> \o NameAb)
IndexLbrys == {LbryA, LbryB, LbryC}
\* the files of the tree the calls are about
IndexPaths == {Cat1ABz, Cat2ABz, Cat1Cz}
NewIndexObs == [call |-> "none", calls |-> 0]

\* process_entry's two calls of add_to_index: for a file found by name, with
\* the filename derived from the locator and the path found (1206-1221); for
\* a download, with the name and the path of the file as organized
\* (1287-1302)
organizer_add_to_index ==
    /\ pc = "index"
    /\ obs.calls < MaxCalls
    /\ \E lbry_url \in IndexLbrys, p \in IndexPaths, found \in BOOLEAN :
        LET name == expected_filename(lbry_url)
            filename == IF found THEN name ELSE basename(p)
            detail_url == IF lbry_url = LbryA THEN "d1" ELSE "d2"
        IN  /\ found => file_exists_in_cache(build_filesystem_cache(fs, <<p>>), name, 0) = p
            /\ master_index' = add_to_index(master_index, filename, p, lbry_url,
                                            detail_url, getsize(fs, p))
    /\ obs' = [call |-> "add_to_index", calls |-> obs.calls + 1]
    /\ UNCHANGED <<pc, fs, envVars, acqVars, trkVars, index_file, runVars>>

InitIndex ==
    /\ pc = "index"
    /\ dpaths = {DlPath}
    /\ lat = 0
    /\ plan = "any"
    /\ io = "ok"
    /\ fs = [p \in AllPaths |-> IF p \in IndexPaths THEN SizeNear ELSE NoFile]
    /\ attempt = 0
    /\ wd = NewWait
    /\ ret = NoPath
    /\ gh = NewObs
    /\ history = NoHistory
    /\ db_file = NoDb
    /\ filesystem_cache = NoCache
    /\ master_index = <<>>
    /\ index_file = NoIndexFile
    /\ clk = 0
    /\ obs = NewIndexObs
    /\ catalog = <<>>
    /\ app = NewApp
    /\ rg = NewRunObs

NextIndex == organizer_add_to_index

SpecIndex == InitIndex /\ [][NextIndex]_vars

\* C34: no two records of the index hold the same non-empty locator
C34_DistinctLocators ==
    \A i, j \in DOMAIN master_index :
        (i # j /\ master_index[i].lbry_url # NoUrl)
            => master_index[i].lbry_url # master_index[j].lbry_url

(***************************************************************************)
(* The same program on a machine whose file operations may fail, over a    *)
(* tree that may already hold a file where a download is to be placed.     *)
(***************************************************************************)
InitRunIO ==
    /\ pc = "done"
    /\ dpaths = {Path(DirDl, DaemonName(u)) : u \in Lbrys}
    /\ lat = 0
    /\ plan = "dead"
    /\ io = "faulty"
    /\ fs \in {[p \in AllPaths |-> IF p = Cat1Cz THEN s ELSE NoFile] : s \in {NoFile, SizeFar}}
    /\ attempt = 0
    /\ wd = NewWait
    /\ ret = NoPath
    /\ gh = NewObs
    /\ history = NoHistory
    /\ db_file = NoDb
    /\ filesystem_cache = NoCache
    /\ master_index = <<>>
    /\ index_file = NoIndexFile
    /\ clk = 0
    /\ obs = NewTrackerObs
    /\ catalog \in Catalogs
    /\ app = NewApp
    /\ rg = NewRunObs

\* the process is ended from outside (signal, power loss) while run() is in
\* its loop and no ledger write is under way
process_killed ==
    /\ pc \in {"process_entry", "get_file", "wait_for_download", "gf_return"}
    /\ pc' = "killed"
    /\ UNCHANGED <<fs, envVars, acqVars, trkVars, idxVars, obs, runVars>>

\* the program's own steps and its end from outside, the user leaving the
\* tree and the index alone
NextRunIO ==
    \/ construct
    \/ run_begin
    \/ process_entry_begin
    \/ get_file_attempt
    \/ wait_for_download
    \/ process_entry_finish
    \/ process_killed

SpecRunIO == InitRunIO /\ [][NextRunIO]_vars

\* C13: no failure of an item ends the run: an exception never leaves
\* process_entry, and a run that found the daemon and began its loop ends
\* only after the last item
C13_ItemFailureNeverAbortsRun ==
    /\ pc # "crashed"
    /\ (pc = "done" /\ rg.run > 0 /\ app.available)
          => app.i = Len(app.all_entries)

\* C14: when the 'status' probe of the construction got no result, the
\* client is unavailable and run() returns at once: the catalog is not
\* fetched, no 'get' and no 'file_list' call is made, and the ledger, the
\* ledger file, the index, the index file and the files stay as they were
C14_NoDaemonNoWork ==
    [][(rg.run > 0 /\ ~rg.probe) =>
          /\ ~app.available
          /\ pc # "process_entry"
          /\ pc = "run" =>
                /\ pc' = "done"
                /\ ~rg'.fetched /\ rg'.gets = {}
                /\ UNCHANGED <<fs, acqVars, history, db_file, master_index, index_file>>]_vars

\* a second run whose probe got no result has ended, with a ledger and an
\* index file that the first run wrote
C14_Witness ==
    /\ pc = "done" /\ rg.run = 2
    /\ ~rg.probe /\ ~app.available /\ ~rg.fetched
    /\ history # NoHistory /\ db_file.present /\ index_file.present
    /\ rg.snap.history = rg.prev.history

\* C15: whenever mark_downloaded or mark_failed has returned, and so at
\* every moment between two items, download_history.json holds exactly the
\* ledger in memory: a process that ends there leaves on disk the outcome of
\* every item processed so far
C15_LedgerFileFollowsMemory ==
    (rg.run > 0 /\ pc # "crashed") =>
        /\ load_history(db_file) = history
        /\ clk > 0 => db_file = save_history(history)

\* the process was ended during the second item of a run, after the first
\* item's outcome had been recorded
C15_Witness ==
    /\ pc = "killed"
    /\ app.i = 1 /\ Len(app.all_entries) = 2
    /\ clk = 1
    /\ get_entry_id(app.all_entries[1].detail_url) \in DOMAIN load_history(db_file)
    /\ get_entry_id(app.all_entries[2].detail_url) \notin DOMAIN load_history(db_file)

\* the ledger entry of the item process_entry is working on
CurrentLedgerEntry(h) ==
    Get(h, get_entry_id(CurrentEntry.detail_url), [status |-> "", reason |-> ""])

\* C16: when the move and the copy both fail, the item is recorded as
\* failed with the organize-error reason, the download is still at the path
\* get_file returned, and every file that existed before the attempt still
\* exists, the file at the destination path included
C16_OrganizeFailureLosesNothing ==
    [][(pc = "gf_return" /\ rg'.fault = "move and copy") =>
          /\ Get(CurrentLedgerEntry(history'), "status", "") = "failed"
          /\ Get(CurrentLedgerEntry(history'), "reason", "") = "Organize error"
          /\ exists(fs', ret)
          /\ \A p \in AllPaths : exists(fs, p) => exists(fs', p)]_vars

(***************************************************************************)
(* The tracker constructed on a download_history.json that json.load      *)
(* rejects: the file of an earlier run, cut short or overwritten           *)
(***************************************************************************)
\* what earlier runs had recorded: a download of d1 that is still in the
\* tree, and with it a failure of d2
OldDownload == Put(NoHistory, get_entry_id("d1"),
                   success_entry([p \in AllPaths |-> SizeNear], "d1", Cat1ABz, TRUE, SizeNear, 0))
OldLedgers ==
    {OldDownload,
     Put(OldDownload, get_entry_id("d2"), failed_entry("d2", "Download failed", LbryA, 0))}

LoadFiles ==
    {[p \in AllPaths |-> IF p = Cat1ABz THEN SizeNear
                          ELSE IF p = Cat2ABz THEN SizeFar ELSE NoFile]}

InitLoad ==
    /\ pc = "tracker"
    /\ dpaths = {DlPath}
    /\ lat = 0
    /\ plan = "any"
    /\ io = "ok"
    /\ fs \in LoadFiles
    /\ attempt = 0
    /\ wd = NewWait
    /\ ret = NoPath
    /\ gh = NewObs
    /\ db_file \in {Torn(h) : h \in OldLedgers}
    /\ history = load_history(db_file)
    /\ filesystem_cache = NoCache
    /\ master_index = <<>>
    /\ index_file = NoIndexFile
    /\ clk = 1
    /\ obs = NewTrackerObs
    /\ catalog = <<>>
    /\ app = NewApp
    /\ rg = NewRunObs

SpecLoad == InitLoad /\ [][NextTracker]_vars

\* the URLs mark_downloaded or mark_failed has been called with
Marked == {d \in DetailUrls : obs.written[d].kind # "none"}

\* C39: a ledger file that json.load rejects does not stop the tracker and
\* is not kept: the ledger in memory starts empty, is_downloaded finds no
\* item recorded, and the first mark_downloaded or mark_failed leaves a
\* readable file that holds the new entry and none of the old ones
C39_MalformedLedgerDiscarded ==
    /\ clk = 1 =>
          /\ history = NoHistory
          /\ ~db_file.readable
          /\ obs.call = "is_downloaded" => ~obs.acquired
    /\ clk = 2 =>
          /\ db_file = save_history(history)
          /\ Cardinality(Marked) = 1
          /\ DOMAIN db_file.entries = {get_entry_id(d) : d \in Marked}

\* the first write after the load recorded d2: the file is readable again
\* and the download of d1 that the damaged file held is gone
C39_Witness ==
    /\ clk = 2
    /\ Marked = {"d2"}
    /\ db_file.readable
    /\ get_entry_id("d1") \notin DOMAIN load_history(db_file)
    /\ get_entry_id("d2") \in DOMAIN load_history(db_file)
    /\ exists(fs, Cat1ABz)
====
